---- MODULE Spec2Model ----
(***************************************************************************)
(* Supervision job FailedServer (arangod/Agency/FailedServer.cpp) run by   *)
(* several supervisors against the agency store.  Every transaction of the *)
(* job is one atomic step on the store; a supervisor works from the        *)
(* snapshot it loaded, which may be older than the store.                  *)
(***************************************************************************)
EXTENDS Integers, Sequences, FiniteSets, TLC

(* ------------------------------------------------------------------ *)
(* Bounds and universe                                                 *)
(* ------------------------------------------------------------------ *)

\* the supervisors that may run jobs concurrently
Supervisors == {"s1", "s2"}

\* how many times a supervisor may be lost in the middle of run()
MaxCrashes == 1

\* how many times the driver may load a snapshot and call run()
MaxLoads == 3

Digit(n) == <<"0", "1", "2", "3", "4", "5", "6", "7", "8", "9">>[n + 1]

RECURSIVE to_string(_)
\* std::to_string on a size_t: decimal digits, most significant first
to_string(n) == IF n < 10 THEN <<Digit(n)>>
                ELSE to_string(n \div 10) \o <<Digit(n % 10)>>

\* job ids are character strings, kept as sequences of characters
ParentIds == {to_string(1), to_string(2)}

\* the DB servers of the cluster, in the order of /Plan/DBServers
DBServers == <<"A", "B", "C", "D">>

\* the servers a FailedServer job may be triggered for
TargetServers == {"A"}

HEALTH_STATUS_GOOD == "GOOD"
HEALTH_STATUS_BAD == "BAD"
HEALTH_STATUS_FAILED == "FAILED"

\* timepointToString(system_clock::now()): the clock is not modelled
Now == "now"

NoJob == [jobId |-> <<>>, server |-> "", creator |-> "", jb |-> <<>>]

(* ------------------------------------------------------------------ *)
(* The store and its transactions                                      *)
(* ------------------------------------------------------------------ *)

\* namespaces of the store: field name of the store record per key prefix
toDoPrefix == "todo"
pendingPrefix == "pending"
failedPrefix == "failed"
finishedPrefix == "finished"
blockedServersPrefix == "blocked"
healthPrefix == "health"
failedServersPrefix == "failedServers"

JobNamespaces == {toDoPrefix, pendingPrefix, failedPrefix, finishedPrefix}

Remove(f, k) == [x \in DOMAIN f \ {k} |-> f[x]]

Put(f, k, v) == [x \in DOMAIN f \cup {k} |-> IF x = k THEN v ELSE f[x]]

SetOp(ns, k, v) == [ns |-> ns, key |-> k, op |-> "set", val |-> v]

DeleteOp(ns, k) == [ns |-> ns, key |-> k, op |-> "delete", val |-> <<>>]

\* precondition kinds: the key is absent; the key holds val; the whole
\* namespace equals val.  A transaction lists its preconditions in order.
OldEmpty(ns, k) == [ns |-> ns, key |-> k, kind |-> "oldEmpty", val |-> <<>>]

Old(ns, k, v) == [ns |-> ns, key |-> k, kind |-> "old", val |-> v]

OldAll(ns, v) == [ns |-> ns, key |-> <<>>, kind |-> "oldAll", val |-> v]

Holds(st, p) ==
  CASE p.kind = "oldEmpty" -> p.key \notin DOMAIN st[p.ns]
    [] p.kind = "old" -> p.key \in DOMAIN st[p.ns] /\ st[p.ns][p.key] = p.val
    [] p.kind = "oldAll" -> st[p.ns] = p.val

ApplyOp(st, o) ==
  IF o.op = "set" THEN [st EXCEPT ![o.ns] = Put(st[o.ns], o.key, o.val)]
  ELSE [st EXCEPT ![o.ns] = Remove(st[o.ns], o.key)]

RECURSIVE ApplyOps(_, _)
ApplyOps(st, ops) ==
  IF ops = <<>> THEN st ELSE ApplyOps(ApplyOp(st, Head(ops)), Tail(ops))

\* a write transaction: all operations in order iff every precondition
\* holds against the store at commit time, otherwise nothing
Accepted(st, trx) == \A i \in 1..Len(trx.pre) : Holds(st, trx.pre[i])

transact(st, trx) == IF Accepted(st, trx) THEN ApplyOps(st, trx.ops) ELSE st

(* ------------------------------------------------------------------ *)
(* Job: the parts every job variant shares                             *)
(* ------------------------------------------------------------------ *)

NOTFOUND == "NOTFOUND"
TODO == "TODO"
PENDING == "PENDING"
FAILED == "FAILED"
FINISHED == "FINISHED"

\* the namespace a status names
pos(status) ==
  CASE status = TODO -> toDoPrefix
    [] status = PENDING -> pendingPrefix
    [] status = FAILED -> failedPrefix
    [] status = FINISHED -> finishedPrefix

\* Job::exists: the first namespace of the snapshot that holds the job id
exists(snapshot, jobId) ==
  CASE jobId \in DOMAIN snapshot[toDoPrefix] -> TODO
    [] jobId \in DOMAIN snapshot[pendingPrefix] -> PENDING
    [] jobId \in DOMAIN snapshot[failedPrefix] -> FAILED
    [] jobId \in DOMAIN snapshot[finishedPrefix] -> FINISHED
    [] OTHER -> NOTFOUND

\* Job::finish found a record to move: the snapshot's Pending entry, else
\* its ToDo entry; with neither it returns false and issues no transaction
FinishFound(snapshot, jobId) ==
  jobId \in DOMAIN snapshot[pendingPrefix] \cup DOMAIN snapshot[toDoPrefix]

FinishRecord(snapshot, jobId) ==
  IF jobId \in DOMAIN snapshot[pendingPrefix]
  THEN snapshot[pendingPrefix][jobId]
  ELSE snapshot[toDoPrefix][jobId]

WithField(rec, name, v) ==
  [f \in DOMAIN rec \cup {name} |-> IF f \in DOMAIN rec THEN rec[f] ELSE v]

\* Job::finish(key, success, reason): one transaction that inserts the
\* record under Finished or Failed, deletes the Pending and the ToDo entry
\* and deletes the block named by key
FinishTrx(snapshot, jobId, key, success, reason) ==
  LET rec == WithField(FinishRecord(snapshot, jobId), "timeFinished", Now)
      out == IF reason = "" THEN rec ELSE WithField(rec, "reason", reason)
  IN [ops |-> << SetOp(IF success THEN finishedPrefix ELSE failedPrefix,
                       jobId, out),
                 DeleteOp(pendingPrefix, jobId),
                 DeleteOp(toDoPrefix, jobId),
                 DeleteOp(blockedServersPrefix, key) >>,
      pre |-> <<>>]

\* Job::availableServers: the planned DB servers
availableServers(snapshot) == DBServers

(* ------------------------------------------------------------------ *)
(* FailedServer::create and FailedServer::start: their transactions    *)
(* ------------------------------------------------------------------ *)

\* the ToDo record create() builds
ToDoRecord(job) ==
  [type |-> "failedServer", server |-> job.server, jobId |-> job.jobId,
   creator |-> job.creator, timeCreated |-> Now]

\* a create() that does not write the Target/FailedServers entry (C30 must
\* reject it)
CreateOperations_ToDoOnly(job) ==
  << SetOp(toDoPrefix, job.jobId, ToDoRecord(job)) >>

CreateOperations(job) ==
  << SetOp(toDoPrefix, job.jobId, ToDoRecord(job)),
     SetOp(failedServersPrefix, job.server, <<>>) >>

\* a create() guarded by the server's health only (C23 must reject it)
CreatePreconditions_HealthOnly(snapshot, job) ==
  << Old(healthPrefix, job.server, HEALTH_STATUS_BAD) >>

CreatePreconditions(snapshot, job) ==
  << Old(healthPrefix, job.server, HEALTH_STATUS_BAD),
     OldAll(failedServersPrefix, snapshot[failedServersPrefix]) >>

CreateTrx(snapshot, job) ==
  [ops |-> CreateOperations(job), pre |-> CreatePreconditions(snapshot, job)]

\* no envelope: create() builds and commits its own transaction
nullptr == "nullptr"

\* a create() that commits its transaction whether or not it was given an
\* envelope (C31 must reject it)
FailedServer_create_AlwaysTransacts(st, envelope, snapshot, job) ==
  LET trx == CreateTrx(snapshot, job)
  IN [jb |-> IF envelope = nullptr THEN <<trx>> ELSE Append(envelope, trx),
      store |-> transact(st, trx),
      ret |-> Accepted(st, trx)]

\* create(envelope): the transaction is appended to the envelope, or to a
\* builder of its own, which alone is committed; jb is _jb afterwards,
\* store the agency afterwards, ret what create() returns
FailedServer_create(st, envelope, snapshot, job) ==
  LET selfCreate == envelope = nullptr
      trx == CreateTrx(snapshot, job)
  IN [jb |-> IF selfCreate THEN <<trx>> ELSE Append(envelope, trx),
      store |-> IF selfCreate THEN transact(st, trx) ELSE st,
      ret |-> selfCreate => Accepted(st, trx)]

\* start() reads the ToDo entry from the envelope create() built, or from
\* the snapshot when the job was constructed from a stored record
\* a start() that goes on without a ToDo entry to read (C35 must reject
\* it)
HasToDo_Always(snapshot, job) == TRUE

HasToDo(snapshot, job) ==
  job.jb # <<>> \/ job.jobId \in DOMAIN snapshot[toDoPrefix]

\* _jb->slice()[0].get(<ToDo key>): the value the envelope's first
\* transaction sets under the job's ToDo key
GetToDo(trx, jobId) ==
  LET i == CHOOSE n \in 1..Len(trx.ops) :
             trx.ops[n].ns = toDoPrefix /\ trx.ops[n].key = jobId
  IN trx.ops[i].val

\* the ToDo entry start() copies; a snapshot without it gives nothing to
\* copy
ReadToDo(snapshot, job) ==
  IF job.jb # <<>> THEN GetToDo(job.jb[1], job.jobId)
  ELSE IF job.jobId \in DOMAIN snapshot[toDoPrefix]
  THEN snapshot[toDoPrefix][job.jobId]
  ELSE <<>>

\* the Pending entry: timeStarted, then every field of the ToDo entry
PendingRecord(todo) ==
  [f \in {"timeStarted"} \cup DOMAIN todo |->
     IF f \in DOMAIN todo THEN todo[f] ELSE Now]

\* a start() that leaves the ToDo entry in place (C5 must reject it)
StartOperations_KeepToDo(todo, job) ==
  << SetOp(pendingPrefix, job.jobId, PendingRecord(todo)),
     SetOp(blockedServersPrefix, job.server, [jobId |-> job.jobId]) >>

StartOperations(todo, job) ==
  << SetOp(pendingPrefix, job.jobId, PendingRecord(todo)),
     DeleteOp(toDoPrefix, job.jobId),
     SetOp(blockedServersPrefix, job.server, [jobId |-> job.jobId]) >>

\* a start() without any precondition (C2 must reject it)
StartPreconditions_None(job) == << >>

\* a start() guarded by its own Pending entry, not by the server's block
\* (C6 must reject it)
StartPreconditions_OwnPending(job) == << OldEmpty(pendingPrefix, job.jobId) >>

StartPreconditions(job) == << OldEmpty(blockedServersPrefix, job.server) >>

StartTrx(snapshot, job) ==
  [ops |-> StartOperations(ReadToDo(snapshot, job), job),
   pre |-> StartPreconditions(job)]

(* ------------------------------------------------------------------ *)
(* FailedServer::start: the decomposition into sub-jobs                *)
(* ------------------------------------------------------------------ *)

\* A topology is [plan, current].  plan lists the databases of
\* /Plan/Collections in key order, each with its collections in key order,
\* each collection with replicationFactor, distributeShardsLike ("" when
\* the attribute is absent) and its shards in key order, each shard with
\* its server list.  current maps a database of /Current/Collections to
\* its collections, each to whether the entry has children.

SubJob(type, db, coll, shard, from, to) ==
  [type |-> type, database |-> db, collection |-> coll, shard |-> shard,
   fromServer |-> from, to |-> to]

Thrown == [type |-> "throw", database |-> "", collection |-> "",
           shard |-> "", fromServer |-> "", to |-> <<>>]

\* a scan that leaves the candidates as they are (C15 must reject it)
Erase_Nothing(available, dbs) == available

Erase(available, dbs) == SelectSeq(available, LAMBDA x : x # dbs)

RECURSIVE ScanShard_LeaderFound(_, _, _, _, _, _, _, _, _)
\* a scan that also marks the failed leader as found, as if it were a
\* follower (C14 must reject it)
ScanShard_LeaderFound(server, db, coll, shard, servers, i, p, found, av0) ==
  IF i > Len(servers)
  THEN [events |-> <<>>, found |-> found, available |-> av0,
        thrown |-> FALSE]
  ELSE LET dbs == servers[i]
           av == Erase(av0, dbs)
       IN IF dbs = server /\ p = 0 /\ Len(servers) < 2
          THEN [events |-> <<>>, found |-> found, available |-> av,
                thrown |-> TRUE]
          ELSE LET r == ScanShard_LeaderFound(server, db, coll, shard, servers,
                                              i + 1, p + 1,
                                              found \/ dbs = server, av)
               IN IF dbs = server /\ p = 0
                  THEN [r EXCEPT !.events =
                          <<SubJob("failedLeader", db, coll, shard, server,
                                   <<servers[2]>>)>> \o @]
                  ELSE r

RECURSIVE ScanShard(_, _, _, _, _, _, _, _, _)
\* the loop over the servers of one shard: every server is removed from
\* available; the failed server at pos 0 runs a FailedLeader and continues
\* without counting the position, at another position it sets found
ScanShard(server, db, coll, shard, servers, i, p, found, available) ==
  IF i > Len(servers)
  THEN [events |-> <<>>, found |-> found, available |-> available,
        thrown |-> FALSE]
  ELSE LET dbs == servers[i]
           av == Erase(available, dbs)
       IN IF dbs = server
          THEN IF p = 0
               THEN IF Len(servers) < 2
                    THEN [events |-> <<>>, found |-> found, available |-> av,
                          thrown |-> TRUE]
                    ELSE LET r == ScanShard(server, db, coll, shard, servers,
                                            i + 1, p, found, av)
                         IN [r EXCEPT !.events =
                               <<SubJob("failedLeader", db, coll, shard,
                                        server, <<servers[2]>>)>> \o @]
               ELSE ScanShard(server, db, coll, shard, servers, i + 1, p + 1,
                              TRUE, av)
          ELSE ScanShard(server, db, coll, shard, servers, i + 1, p + 1,
                         found, av)

RECURSIVE ScanShards_FreshPool(_, _, _, _, _, _, _)
\* a pass that gives every shard the full list of candidates again (C17
\* must reject it)
ScanShards_FreshPool(server, db, coll, shards, k, isClone, available) ==
  IF k > Len(shards)
  THEN [events |-> <<>>, thrown |-> FALSE]
  ELSE LET r == ScanShard(server, db, coll, shards[k].name,
                          shards[k].servers, 1, 0, FALSE, available)
           follower ==
             IF r.found /\ r.available # <<>> /\ ~isClone
             THEN <<SubJob("failedFollower", db, coll, shards[k].name,
                           server, r.available)>>
             ELSE <<>>
       IN IF r.thrown
          THEN [events |-> r.events, thrown |-> TRUE]
          ELSE LET rest == ScanShards_FreshPool(server, db, coll, shards,
                                                k + 1, isClone, available)
               IN [rest EXCEPT !.events = r.events \o follower \o @]

RECURSIVE ScanShards_AlwaysFollower(_, _, _, _, _, _, _)
\* a pass that runs a FailedFollower for every shard that leaves a
\* candidate, whether or not the failed server follows in it (C38 must
\* reject it)
ScanShards_AlwaysFollower(server, db, coll, shards, k, isClone, available) ==
  IF k > Len(shards)
  THEN [events |-> <<>>, thrown |-> FALSE]
  ELSE LET r == ScanShard(server, db, coll, shards[k].name,
                          shards[k].servers, 1, 0, FALSE, available)
           follower ==
             IF r.available # <<>> /\ ~isClone
             THEN <<SubJob("failedFollower", db, coll, shards[k].name,
                           server, r.available)>>
             ELSE <<>>
       IN IF r.thrown
          THEN [events |-> r.events, thrown |-> TRUE]
          ELSE LET rest == ScanShards_AlwaysFollower(server, db, coll, shards,
                                                     k + 1, isClone,
                                                     r.available)
               IN [rest EXCEPT !.events = r.events \o follower \o @]

RECURSIVE ScanShards(_, _, _, _, _, _, _)
\* the loop over the shards of a collection with assumed leadership
ScanShards(server, db, coll, shards, k, isClone, available) ==
  IF k > Len(shards)
  THEN [events |-> <<>>, thrown |-> FALSE]
  ELSE LET r == ScanShard(server, db, coll, shards[k].name,
                          shards[k].servers, 1, 0, FALSE, available)
           follower ==
             IF r.found /\ r.available # <<>> /\ ~isClone
             THEN <<SubJob("failedFollower", db, coll, shards[k].name,
                           server, r.available)>>
             ELSE <<>>
       IN IF r.thrown
          THEN [events |-> r.events, thrown |-> TRUE]
          ELSE LET rest == ScanShards(server, db, coll, shards, k + 1,
                                      isClone, r.available)
               IN [rest EXCEPT !.events = r.events \o follower \o @]

\* a pass that runs UnassumedLeadership only for the shards that hold the
\* failed server (C19 must reject it)
ScanCollection_OnlyHeld(snapshot, server, db, collection, cdatabase) ==
  IF cdatabase[collection.name]
  THEN IF collection.replicationFactor > 1
       THEN ScanShards(server, db, collection.name, collection.shards, 1,
                       collection.distributeShardsLike # "",
                       availableServers(snapshot))
       ELSE [events |-> <<>>, thrown |-> FALSE]
  ELSE [events |->
          LET held == SelectSeq(collection.shards,
                                LAMBDA sh : \E i \in 1..Len(sh.servers) :
                                              sh.servers[i] = server)
          IN [k \in 1..Len(held) |->
                SubJob("unassumedLeadership", db, collection.name,
                       held[k].name, server, <<>>)],
        thrown |-> FALSE]

\* a pass that takes no collection for a clone (C16 must reject it)
ScanCollection_NoClone(snapshot, server, db, collection, cdatabase) ==
  IF cdatabase[collection.name]
  THEN IF collection.replicationFactor > 1
       THEN ScanShards(server, db, collection.name, collection.shards, 1,
                       FALSE, availableServers(snapshot))
       ELSE [events |-> <<>>, thrown |-> FALSE]
  ELSE [events |->
          [k \in 1..Len(collection.shards) |->
             SubJob("unassumedLeadership", db, collection.name,
                    collection.shards[k].name, server, <<>>)],
        thrown |-> FALSE]

\* one collection of the plan
\* a pass that scans the shards of a collection whatever its replication
\* factor (C37 must reject it)
ScanCollection_AnyFactor(snapshot, server, db, collection, cdatabase) ==
  IF cdatabase[collection.name]
  THEN ScanShards(server, db, collection.name, collection.shards, 1,
                  collection.distributeShardsLike # "",
                  availableServers(snapshot))
  ELSE [events |->
          [k \in 1..Len(collection.shards) |->
             SubJob("unassumedLeadership", db, collection.name,
                    collection.shards[k].name, server, <<>>)],
        thrown |-> FALSE]

ScanCollection(snapshot, server, db, collection, cdatabase) ==
  IF cdatabase[collection.name]
  THEN IF collection.replicationFactor > 1
       THEN ScanShards(server, db, collection.name, collection.shards, 1,
                       collection.distributeShardsLike # "",
                       availableServers(snapshot))
       ELSE [events |-> <<>>, thrown |-> FALSE]
  ELSE [events |->
          [k \in 1..Len(collection.shards) |->
             SubJob("unassumedLeadership", db, collection.name,
                    collection.shards[k].name, server, <<>>)],
        thrown |-> FALSE]

RECURSIVE ScanCollections(_, _, _, _, _, _)
ScanCollections(snapshot, server, db, colls, c, cdatabase) ==
  IF c > Len(colls)
  THEN [events |-> <<>>, thrown |-> FALSE]
  ELSE LET r == ScanCollection(snapshot, server, db, colls[c], cdatabase)
       IN IF r.thrown THEN r
          ELSE LET rest == ScanCollections(snapshot, server, db, colls,
                                           c + 1, cdatabase)
               IN [rest EXCEPT !.events = r.events \o @]

RECURSIVE ScanDatabases(_, _, _, _, _)
\* the loop over the planned databases; current.at(database) throws when
\* the database has no entry in /Current/Collections
ScanDatabases(snapshot, server, databases, current, d) ==
  IF d > Len(databases)
  THEN [events |-> <<>>, thrown |-> FALSE]
  ELSE IF databases[d].name \notin DOMAIN current
       THEN [events |-> <<>>, thrown |-> TRUE]
       ELSE LET r == ScanCollections(snapshot, server, databases[d].name,
                                     databases[d].collections, 1,
                                     current[databases[d].name])
            IN IF r.thrown THEN r
               ELSE LET rest == ScanDatabases(snapshot, server, databases,
                                              current, d + 1)
                    IN [rest EXCEPT !.events = r.events \o @]

\* what start() does after its transaction was accepted, in order: the
\* sub-jobs it runs, the n-th (from 0) with id <jobId>-n, ended by Thrown
\* when an exception leaves the loops
Decomposition(snapshot, topology, server) ==
  LET r == ScanDatabases(snapshot, server, topology.plan, topology.current, 1)
  IN IF r.thrown THEN r.events \o <<Thrown>> ELSE r.events

\* a pass that numbers every sub-job 0 (C20 must reject it)
SubJobId_Zero(jobId, sub) == jobId \o <<"-">> \o to_string(0)

SubJobId(jobId, sub) == jobId \o <<"-">> \o to_string(sub)

(* ------------------------------------------------------------------ *)
(* Sub-jobs (FailedLeader, FailedFollower, UnassumedLeadership)         *)
(* ------------------------------------------------------------------ *)

SubJobRecord(parent, id, ev, to) ==
  [type |-> ev.type, jobId |-> id, creator |-> parent,
   database |-> ev.database, collection |-> ev.collection,
   shard |-> ev.shard, fromServer |-> ev.fromServer, toServer |-> to,
   timeCreated |-> Now]

\* the sub-job's create: the ToDo insert, guarded by "entry does not yet
\* exist"
SubJobCreateTrx(id, rec) ==
  [ops |-> <<SetOp(toDoPrefix, id, rec)>>, pre |-> <<OldEmpty(toDoPrefix, id)>>]

\* the sub-job's start: the move from ToDo to Pending in one transaction
SubJobStartTrx(id, rec) ==
  [ops |-> <<SetOp(pendingPrefix, id, PendingRecord(rec)),
             DeleteOp(toDoPrefix, id)>>,
   pre |-> <<>>]

\* run() of a sub-job constructed on the parent's snapshot: create when the
\* snapshot does not hold it, then start; startOk says whether the
\* preconditions of its start (the shard's topology, its blocks) hold
SubJobRun(st, snapshot, id, rec, startOk) ==
  LET status == exists(snapshot, id)
      create == SubJobCreateTrx(id, rec)
      created == status = NOTFOUND /\ Accepted(st, create)
      st1 == IF status = NOTFOUND THEN transact(st, create) ELSE st
      todo == IF status = TODO THEN snapshot[toDoPrefix][id] ELSE rec
  IN IF (status = TODO \/ created) /\ startOk
     THEN transact(st1, SubJobStartTrx(id, todo))
     ELSE st1

(* ------------------------------------------------------------------ *)
(* FailedServer::status: the reconciliation of a Pending job           *)
(* ------------------------------------------------------------------ *)

Min(a, b) == IF a < b THEN a ELSE b

\* a status() that takes every id beginning with the parent's id for a
\* sub-job (C36 must reject it)
IsSubJobOf_LeadingChars(key, jobId) ==
  Len(key) > Len(jobId) /\ SubSeq(key, 1, Len(jobId)) = jobId

\* subJob.first.compare(0, _jobId.size() + 1, _jobId + "-") == 0
IsSubJobOf(key, jobId) ==
  SubSeq(key, 1, Min(Len(key), Len(jobId) + 1)) = jobId \o <<"-">>

\* a status() that takes every server for healthy (C13 must reject it)
ServerHealthy_Always(snapshot, server) == TRUE

ServerHealthy(snapshot, server) ==
  snapshot[healthPrefix][server] = HEALTH_STATUS_GOOD

\* a status() that deletes the ToDo sub-jobs whatever the server's health
\* (C33 must reject it)
DeleteTodos_Always(snapshot, jobId, server) ==
  {k \in DOMAIN snapshot[toDoPrefix] : IsSubJobOf(k, jobId)}

\* the ToDo sub-jobs status() deletes
DeleteTodos(snapshot, jobId, server) ==
  IF ServerHealthy(snapshot, server)
  THEN {k \in DOMAIN snapshot[toDoPrefix] : IsSubJobOf(k, jobId)}
  ELSE {}

\* a status() that does not count the Pending sub-jobs as open (C12 must
\* reject it)
HasOpenChildTasks_ToDoOnly(snapshot, jobId, server) ==
  /\ ~ServerHealthy(snapshot, server)
  /\ \E k \in DOMAIN snapshot[toDoPrefix] : IsSubJobOf(k, jobId)

HasOpenChildTasks(snapshot, jobId, server) ==
  \/ /\ ~ServerHealthy(snapshot, server)
     /\ \E k \in DOMAIN snapshot[toDoPrefix] : IsSubJobOf(k, jobId)
  \/ \E k \in DOMAIN snapshot[pendingPrefix] : IsSubJobOf(k, jobId)

RECURSIVE DeleteOps(_)
DeleteOps(keys) ==
  IF keys = {} THEN <<>>
  ELSE LET k == CHOOSE x \in keys : TRUE
       IN <<DeleteOp(toDoPrefix, k)>> \o DeleteOps(keys \ {k})

DeleteTodosTrx(snapshot, jobId, server) ==
  [ops |-> DeleteOps(DeleteTodos(snapshot, jobId, server)), pre |-> <<>>]

\* the record status() reads the server from
StatusRecord(snapshot, jobId) == snapshot[pos(exists(snapshot, jobId))][jobId]

(* ------------------------------------------------------------------ *)
(* Topologies                                                          *)
(* ------------------------------------------------------------------ *)

Shard(name, servers) == [name |-> name, servers |-> servers]

Collection(name, replicationFactor, like, shards) ==
  [name |-> name, replicationFactor |-> replicationFactor,
   distributeShardsLike |-> like, shards |-> shards]

Database(name, collections) == [name |-> name, collections |-> collections]

\* A holds no shard
Uninvolved ==
  [plan |-> <<Database("d", <<Collection("c", 2, "",
                <<Shard("s1", <<"B", "C">>)>>)>>)>>,
   current |-> [d |-> [c |-> TRUE]]]

\* A leads s1 and follows in s2
LeaderAndFollower ==
  [plan |-> <<Database("d", <<Collection("c", 3, "",
                <<Shard("s1", <<"A", "B", "C">>),
                  Shard("s2", <<"B", "A", "C">>)>>)>>)>>,
   current |-> [d |-> [c |-> TRUE]]]

\* the planned database has no entry in Current
MissingDatabase ==
  [plan |-> <<Database("d", <<Collection("c", 2, "",
                <<Shard("s1", <<"A", "B">>)>>)>>)>>,
   current |-> <<>>]

Topologies == {Uninvolved, LeaderAndFollower, MissingDatabase}

(* ------------------------------------------------------------------ *)
(* State                                                               *)
(* ------------------------------------------------------------------ *)

VARIABLES
  store,         \* the agency: one map per namespace
  topology,      \* /Plan/Collections and /Current/Collections
  pc,            \* per supervisor: where its run() stands
  snap,          \* per supervisor: the snapshot its job was built on
  job,           \* per supervisor: _jobId, _server, _creator, _jb
  idx,           \* per supervisor: the next step of the decomposition
  startCommits,  \* per job id: accepted start() transactions, up to 2
  crashes,       \* how many runs were lost
  loads,         \* how many runs the driver began
  crashedMid     \* the job ids whose run was lost between sub-job 0 and 1

vars == <<store, topology, pc, snap, job, idx, startCommits, crashes, loads,
          crashedMid>>

history == <<startCommits, crashes, crashedMid>>

EmptyStore ==
  [todo |-> <<>>, pending |-> <<>>, failed |-> <<>>, finished |-> <<>>,
   blocked |-> <<>>, failedServers |-> <<>>,
   health |-> [x \in TargetServers |-> HEALTH_STATUS_GOOD]]

Init ==
  /\ store = EmptyStore
  /\ topology \in Topologies
  /\ pc = [s \in Supervisors |-> "idle"]
  /\ snap = [s \in Supervisors |-> EmptyStore]
  /\ job = [s \in Supervisors |-> NoJob]
  /\ idx = [s \in Supervisors |-> 0]
  /\ startCommits = [j \in ParentIds |-> 0]
  /\ crashes = 0
  /\ loads = 0
  /\ crashedMid = {}

Recorded(st, jobId) == \E ns \in JobNamespaces : jobId \in DOMAIN st[ns]

Up(n) == IF n < 2 THEN n + 1 ELSE n

\* the supervisor's own state after a step; nothing is kept of a run that
\* ended
Local(s, newPc, newJob, newIdx) ==
  /\ pc' = [pc EXCEPT ![s] = newPc]
  /\ snap' = [snap EXCEPT ![s] = IF newPc = "idle" THEN EmptyStore ELSE @]
  /\ job' = [job EXCEPT ![s] = IF newPc = "idle" THEN NoJob ELSE newJob]
  /\ idx' = [idx EXCEPT ![s] = IF newPc = "idle" THEN 0 ELSE newIdx]

(* ------------------------------------------------------------------ *)
(* The driver                                                          *)
(* ------------------------------------------------------------------ *)

IsPrefix(p, key) == Len(p) <= Len(key) /\ SubSeq(key, 1, Len(p)) = p

\* The snapshot a job is constructed on, kept to the keys the job can read:
\* the job namespaces at the keys that begin with its id, the health
\* records and Target/FailedServers.
Snapshot(st, jobId) ==
  [ns \in DOMAIN st |->
     IF ns \in JobNamespaces
     THEN [k \in {x \in DOMAIN st[ns] : IsPrefix(jobId, x)} |-> st[ns][k]]
     ELSE IF ns = blockedServersPrefix THEN <<>> ELSE st[ns]]

\* the driver loads a fresh snapshot and constructs the job: from its
\* stored record, or from trigger parameters for a server that is not
\* healthy
Load(s, jobId, server) ==
  /\ pc[s] = "idle"
  /\ loads < MaxLoads
  /\ loads' = loads + 1
  /\ IF Recorded(store, jobId)
     THEN "server" \in DOMAIN StatusRecord(store, jobId)
            => server = StatusRecord(store, jobId).server
     ELSE store[healthPrefix][server] # HEALTH_STATUS_GOOD
  /\ pc' = [pc EXCEPT ![s] = "run"]
  /\ snap' = [snap EXCEPT ![s] = Snapshot(store, jobId)]
  /\ job' = [job EXCEPT ![s] = [jobId |-> jobId, server |-> server,
                                creator |-> "supervision", jb |-> <<>>]]
  /\ idx' = [idx EXCEPT ![s] = 0]
  /\ UNCHANGED <<store, topology, history>>

\* the supervisor is lost in the middle of run()
Crash(s) ==
  /\ pc[s] # "idle"
  /\ crashes < MaxCrashes
  /\ crashes' = crashes + 1
  /\ crashedMid' =
       IF /\ pc[s] = "decomp"
          /\ idx[s] = 2
          /\ Decomposition(snap[s], topology, job[s].server)[2].type # "throw"
       THEN crashedMid \cup {job[s].jobId}
       ELSE crashedMid
  /\ Local(s, "idle", NoJob, 0)
  /\ UNCHANGED <<store, topology, loads, startCommits>>

(* ------------------------------------------------------------------ *)
(* FailedServer::run, one step per transaction                        *)
(* ------------------------------------------------------------------ *)

\* a run() that creates whatever is not in ToDo (C9 must reject it)
RunDispatch_CreateUnlessToDo(status) ==
  CASE status = TODO -> "start"
    [] OTHER -> "create"

\* run(): what follows status()
RunDispatch(status) ==
  CASE status = TODO -> "start"
    [] status = NOTFOUND -> "create"
    [] OTHER -> "idle"

\* a run() that starts whatever create() returned (C7 must reject it)
AfterCreate_Ignored(created) == "start"

\* run(): what follows create()
AfterCreate(created) == IF created THEN "start" ELSE "idle"

\* a status() that reports every ended job as FINISHED (C27 must reject it)
StatusResult_EndedIsFinished(snapshot, jobId, server) ==
  IF exists(snapshot, jobId) \in {TODO, NOTFOUND}
  THEN exists(snapshot, jobId) ELSE FINISHED

\* what status() returns when it issues at most one transaction: FAILED for
\* a record without server, FINISHED for a Pending job it finished
StatusResult(snapshot, jobId, server) ==
  LET status == exists(snapshot, jobId)
  IN CASE status # NOTFOUND
            /\ "server" \notin DOMAIN StatusRecord(snapshot, jobId) -> FAILED
       [] status = PENDING
            /\ DeleteTodos(snapshot, jobId, server) = {}
            /\ ~HasOpenChildTasks(snapshot, jobId, server) -> FINISHED
       [] OTHER -> status

\* a status() that goes on to finish() whether or not its delete
\* transaction was accepted (C32 must reject it)
AfterDelete_Ignored(accepted, open) ==
  IF open THEN "idle" ELSE "statusFinish"

\* status(), after its delete transaction: when it was not accepted
\* status() returns PENDING at once; else it finishes a job without open
\* sub-jobs
AfterDelete(accepted, open) ==
  IF ~accepted THEN RunDispatch(PENDING)
  ELSE IF open THEN RunDispatch(PENDING) ELSE "statusFinish"

\* status(), and run()'s dispatch on what it returns.  A Pending job is
\* reconciled: the ToDo sub-jobs of a healthy server are deleted, and a job
\* without open sub-jobs is finished.  available says whether the agency
\* takes writes at all: when it does not, no transaction is accepted.
Status(s, available) ==
  /\ pc[s] = "run"
  /\ LET snapshot == snap[s]
         jobId == job[s].jobId
         status == exists(snapshot, jobId)
         malformed == /\ status # NOTFOUND
                      /\ "server" \notin DOMAIN StatusRecord(snapshot, jobId)
         server == IF status = NOTFOUND \/ malformed THEN job[s].server
                   ELSE StatusRecord(snapshot, jobId).server
         reconcile == status = PENDING /\ ~malformed
         delete == reconcile /\ DeleteTodos(snapshot, jobId, server) # {}
         open == reconcile /\ HasOpenChildTasks(snapshot, jobId, server)
         finishFailed == malformed /\ FinishFound(snapshot, jobId)
         finishDone == reconcile /\ ~delete /\ ~open
         next == IF delete THEN AfterDelete(available, open)
                 ELSE RunDispatch(StatusResult(snapshot, jobId, server))
     IN /\ store' =
             CASE ~available -> store
               [] finishFailed ->
                    transact(store, FinishTrx(snapshot, jobId, server, FALSE,
                                              "Failed to find job"))
               [] delete ->
                    transact(store, DeleteTodosTrx(snapshot, jobId, server))
               [] finishDone ->
                    transact(store, FinishTrx(snapshot, jobId, server, TRUE, ""))
               [] OTHER -> store
        /\ Local(s, next, [job[s] EXCEPT !.server = server], 0)
  /\ UNCHANGED <<topology, loads, history>>

\* status() on an agency that takes writes
RunStatus(s) == Status(s, TRUE)

\* status(), after its delete transaction was accepted: finish the job and
\* return FINISHED
RunStatusFinish(s) ==
  /\ pc[s] = "statusFinish"
  /\ store' = transact(store, FinishTrx(snap[s], job[s].jobId, job[s].server,
                                        TRUE, ""))
  /\ Local(s, RunDispatch(FINISHED), job[s], 0)
  /\ UNCHANGED <<topology, loads, history>>

\* create() without an envelope: the transaction; it returns whether the
\* transaction was accepted
RunCreate(s) ==
  /\ pc[s] = "create"
  /\ LET r == FailedServer_create(store, nullptr, snap[s], job[s])
     IN /\ store' = r.store
        /\ Local(s, AfterCreate(r.ret), [job[s] EXCEPT !.jb = r.jb], 0)
  /\ UNCHANGED <<topology, loads, history>>

\* a start() that commits only in the run() that created the job (C26 must
\* reject it)
StartAccepted_OnlyCreated(st, snapshot, j) ==
  j.jb # <<>> /\ Accepted(st, StartTrx(snapshot, j))

\* start() has a ToDo entry to read and its transaction is accepted
StartAccepted(st, snapshot, j) ==
  HasToDo(snapshot, j) /\ Accepted(st, StartTrx(snapshot, j))

\* Where a call of start() leads.  Inside run() the value start() returns
\* is dropped and an exception is caught by run(), which calls finish();
\* a caller of start() itself gets the value or the exception.
RunEnds == [true |-> "idle", false |-> "idle", throw |-> "idle",
            caught |-> TRUE]

CallEnds == [true |-> "true", false |-> "false", throw |-> "thrown",
             caught |-> FALSE]

\* a start() that returns true only when it spawned a sub-job (C34 must
\* reject it)
EndOfLoops_NeedsSubJobs(ends, events) ==
  IF events # <<>> THEN ends.true ELSE ends.false

\* start() after its loops over the plan: it returns true, whatever was
\* spawned
EndOfLoops(ends, events) == ends.true

\* start(): the transaction to Pending; when it is accepted the
\* decomposition follows, else start() returns false
Start(s, ends) ==
  /\ pc[s] = "start"
  /\ LET ok == StartAccepted(store, snap[s], job[s])
         events == Decomposition(snap[s], topology, job[s].server)
     IN /\ store' = IF ok THEN transact(store, StartTrx(snap[s], job[s]))
                    ELSE store
        /\ startCommits' =
             IF ok THEN [startCommits EXCEPT ![job[s].jobId] = Up(@)]
             ELSE startCommits
        /\ Local(s, IF ~ok THEN ends.false
                    ELSE IF events # <<>> THEN "decomp"
                    ELSE EndOfLoops(ends, events),
                 job[s], 1)
  /\ UNCHANGED <<topology, loads, crashes, crashedMid>>

\* start() called by run()
RunStart(s) == Start(s, RunEnds)

\* what run()'s catch does: finish(false, message), which issues its
\* transaction when the snapshot holds the job in Pending or ToDo
CatchFinish(st, snapshot, j) ==
  IF FinishFound(snapshot, j.jobId)
  THEN transact(st, FinishTrx(snapshot, j.jobId, j.server, FALSE, "exception"))
  ELSE st

\* start(): the next sub-job of the decomposition and its run(), or the
\* exception that leaves start()
\* a decomposition that draws the target of every sub-job at random from
\* the servers of the cluster (C40 must reject it)
RandomChoices_AnyTarget(ev) == {DBServers[i] : i \in 1..Len(DBServers)}

\* the servers std::rand() can pick for a sub-job: one of the remaining
\* candidates for a FailedFollower, the constructor's argument otherwise
RandomChoices(ev) ==
  IF ev.to = <<>> THEN {""} ELSE {ev.to[i] : i \in 1..Len(ev.to)}

Decomposing(s, ends) ==
  /\ pc[s] = "decomp"
  /\ LET jobId == job[s].jobId
         events == Decomposition(snap[s], topology, job[s].server)
         ev == events[idx[s]]
         id == SubJobId(jobId, idx[s] - 1)
         last == idx[s] = Len(events)
     IN IF ev.type = "throw"
        THEN /\ store' = IF ends.caught
                         THEN CatchFinish(store, snap[s], job[s])
                         ELSE store
             /\ Local(s, ends.throw, job[s], 0)
        ELSE /\ \E to \in RandomChoices(ev) :
                  \E startOk \in BOOLEAN :
                    store' = SubJobRun(store, snap[s], id,
                                       SubJobRecord(jobId, id, ev, to), startOk)
             /\ Local(s, IF last THEN EndOfLoops(ends, events) ELSE "decomp",
                      job[s], idx[s] + 1)
  /\ UNCHANGED <<topology, loads, history>>

\* the decomposition of a start() called by run(), whose catch finishes
\* the job when an exception leaves start()
Decompose(s) == Decomposing(s, RunEnds)

(* ------------------------------------------------------------------ *)
(* The environment: the health monitor and the sub-jobs' own progress  *)
(* ------------------------------------------------------------------ *)

HealthNext(status) ==
  CASE status = HEALTH_STATUS_GOOD -> {HEALTH_STATUS_BAD}
    [] status = HEALTH_STATUS_BAD -> {HEALTH_STATUS_GOOD, HEALTH_STATUS_FAILED}
    [] status = HEALTH_STATUS_FAILED -> {HEALTH_STATUS_GOOD}

HealthChange(server) ==
  /\ \E status \in HealthNext(store[healthPrefix][server]) :
       store' = [store EXCEPT ![healthPrefix][server] = status]
  /\ UNCHANGED <<topology, pc, snap, job, idx, loads, history>>

IsSubJob(key) == \E p \in ParentIds : IsSubJobOf(key, p)

\* a later run() of a ToDo sub-job starts it
SubJobStart(id) ==
  /\ id \in DOMAIN store[toDoPrefix] /\ IsSubJob(id)
  /\ store' = transact(store, SubJobStartTrx(id, store[toDoPrefix][id]))
  /\ UNCHANGED <<topology, pc, snap, job, idx, loads, history>>

\* a Pending sub-job ends: one transaction moves it to Finished or Failed
SubJobFinish(id, success) ==
  /\ id \in DOMAIN store[pendingPrefix] /\ IsSubJob(id)
  /\ store' = transact(store, FinishTrx(store, id, "", success, ""))
  /\ UNCHANGED <<topology, pc, snap, job, idx, loads, history>>

SubJobIds == {SubJobId(p, n) : p \in ParentIds, n \in 0..1}

Next ==
  \/ \E s \in Supervisors, jobId \in ParentIds, server \in TargetServers :
       Load(s, jobId, server)
  \/ \E s \in Supervisors : RunStatus(s)
  \/ \E s \in Supervisors : RunStatusFinish(s)
  \/ \E s \in Supervisors : RunCreate(s)
  \/ \E s \in Supervisors : RunStart(s)
  \/ \E s \in Supervisors : Decompose(s)
  \/ \E s \in Supervisors : Crash(s)
  \/ \E server \in TargetServers : HealthChange(server)
  \/ \E id \in SubJobIds : SubJobStart(id)
  \/ \E id \in SubJobIds, success \in BOOLEAN : SubJobFinish(id, success)

Spec == Init /\ [][Next]_vars

(* ------------------------------------------------------------------ *)
(* Properties                                                          *)
(* ------------------------------------------------------------------ *)

JobIds == ParentIds \cup SubJobIds

NamespacesOf(st, jobId) == {ns \in JobNamespaces : jobId \in DOMAIN st[ns]}

\* C1: state exclusivity - every job id recorded in the store is in exactly
\* one of ToDo, Pending, Failed, Finished, whatever the interleaving of the
\* supervisors' run() calls and however old their snapshots.
C1_StateExclusivity ==
  \A j \in JobIds :
    Recorded(store, j) => Cardinality(NamespacesOf(store, j)) = 1

\* a step of supervisor s that is not its loss
Ran(s, at) == pc[s] = at /\ pc'[s] # at /\ crashes' = crashes

\* the RunStart step of s committed its transaction
StartCommitted(s) == Ran(s, "start") /\ store' # store

\* C2: mutual exclusion - of two FailedServer jobs with distinct ids for
\* the same server, as long as neither was finished, at most one start()
\* was accepted and the blocked-server record names that job; a start()
\* issued while the server is blocked is rejected and changes nothing, one
\* issued while it is not blocked is accepted and writes the record.
C2_MutualExclusion ==
  [][/\ \A j1, j2 \in ParentIds :
          (/\ j1 # j2
           /\ NamespacesOf(store', j1) \subseteq {toDoPrefix, pendingPrefix}
           /\ NamespacesOf(store', j2) \subseteq {toDoPrefix, pendingPrefix}
           /\ startCommits'[j1] >= 1)
          => /\ startCommits'[j2] = 0
             /\ \A srv \in TargetServers :
                  /\ srv \in DOMAIN store'[blockedServersPrefix]
                  /\ store'[blockedServersPrefix][srv].jobId = j1
     /\ \A s \in Supervisors :
          Ran(s, "start") =>
            IF job[s].server \in DOMAIN store[blockedServersPrefix]
            THEN store' = store /\ pc'[s] = "idle"
            ELSE /\ startCommits'[job[s].jobId] = Up(startCommits[job[s].jobId])
                 /\ store'[blockedServersPrefix][job[s].server].jobId
                      = job[s].jobId]_vars

\* two jobs race for the server: one holds the block, the other is about
\* to issue its start()
C2_Witness ==
  \E s \in Supervisors :
    /\ pc[s] = "start"
    /\ job[s].server \in DOMAIN store[blockedServersPrefix]
    /\ store[blockedServersPrefix][job[s].server].jobId # job[s].jobId
    /\ job[s].jobId \in DOMAIN store[toDoPrefix]
    /\ startCommits[job[s].jobId] = 0

\* C3: when several supervisors run() the same job id from snapshots that
\* show it in ToDo, at most one start() transaction commits (and so the
\* decomposition runs at most once).
C3_StartCommitsOnce == \A j \in ParentIds : startCommits[j] <= 1

\* C4: health revalidation - a create() or start() transaction commits only
\* when the server's health at commit time is the one in the job's
\* snapshot.
C4_HealthRevalidated ==
  [][\A s \in Supervisors :
       ((Ran(s, "create") \/ Ran(s, "start")) /\ store' # store)
       => store[healthPrefix][job[s].server]
            = snap[s][healthPrefix][job[s].server]]_vars

\* C5: an accepted start() is one commit that inserts the Pending entry
\* with timeStarted and every field of the ToDo record it read, deletes the
\* ToDo entry and writes the blocked-server record naming the job, and
\* changes nothing else.
C5_StartAtomic ==
  [][\A s \in Supervisors :
       StartCommitted(s) =>
         LET j == job[s].jobId
             todo == ReadToDo(snap[s], job[s])
         IN /\ j \in DOMAIN store'[pendingPrefix]
            /\ "timeStarted" \in DOMAIN store'[pendingPrefix][j]
            /\ \A f \in DOMAIN todo : /\ f \in DOMAIN store'[pendingPrefix][j]
                                      /\ store'[pendingPrefix][j][f] = todo[f]
            /\ j \notin DOMAIN store'[toDoPrefix]
            /\ job[s].server \in DOMAIN store'[blockedServersPrefix]
            /\ store'[blockedServersPrefix][job[s].server] = [jobId |-> j]
            /\ \A ns \in {failedPrefix, finishedPrefix, healthPrefix,
                          failedServersPrefix} : store'[ns] = store[ns]
            /\ \A k \in JobIds \ {j} :
                 /\ k \in DOMAIN store'[toDoPrefix]
                      <=> k \in DOMAIN store[toDoPrefix]
                 /\ k \in DOMAIN store'[pendingPrefix]
                      <=> k \in DOMAIN store[pendingPrefix]]_vars

\* a start() committed: the job is Pending, no longer ToDo, and blocks its
\* server
C5_Witness ==
  \E j \in ParentIds :
    /\ startCommits[j] = 1
    /\ j \in DOMAIN store[pendingPrefix]
    /\ j \notin DOMAIN store[toDoPrefix]
    /\ \E srv \in TargetServers :
         /\ srv \in DOMAIN store[blockedServersPrefix]
         /\ store[blockedServersPrefix][srv].jobId = j

\* C6: a start() whose server is blocked at commit time returns false and
\* leaves the store unchanged; run() ends there, without finish().
C6_BlockedStartChangesNothing ==
  [][\A s \in Supervisors :
       (Ran(s, "start")
        /\ job[s].server \in DOMAIN store[blockedServersPrefix])
       => /\ store' = store
          /\ startCommits' = startCommits
          /\ pc'[s] = "idle"]_vars

\* a job in ToDo is about to start while its server is blocked
C6_Witness ==
  \E s \in Supervisors :
    /\ pc[s] = "start"
    /\ job[s].jobId \in DOMAIN store[toDoPrefix]
    /\ job[s].server \in DOMAIN store[blockedServersPrefix]

\* C7: run() dispatches on status(): TODO leads to start() and not
\* create(); NOTFOUND leads to create(), and to start() only when create()
\* was accepted; PENDING, FINISHED and FAILED lead to neither.
C7_RunDispatch ==
  [][\A s \in Supervisors :
       /\ Ran(s, "run") =>
            LET status == exists(snap[s], job[s].jobId)
            IN /\ status = TODO => pc'[s] = "start"
               /\ status = NOTFOUND => pc'[s] = "create"
               /\ status \in {PENDING, FINISHED, FAILED}
                    => pc'[s] \in {"statusFinish", "idle"}
       /\ Ran(s, "statusFinish") => pc'[s] = "idle"
       /\ Ran(s, "create") =>
            pc'[s] = IF Accepted(store, CreateTrx(snap[s], job[s]))
                     THEN "start" ELSE "idle"
       /\ Ran(s, "start") => pc'[s] \in {"decomp", "idle"}
       /\ Ran(s, "decomp") => pc'[s] = "idle"]_vars

\* run() found the job NOTFOUND, its create() was accepted and start()
\* follows
C7_Witness ==
  \E s \in Supervisors :
    /\ pc[s] = "start"
    /\ job[s].jb # <<>>
    /\ exists(snap[s], job[s].jobId) = NOTFOUND
    /\ job[s].jobId \in DOMAIN store[toDoPrefix]

C9_RunOnEndedJob ==
  [][\A s \in Supervisors :
       (/\ pc[s] = "run"
        /\ pc'[s] # "run"
        /\ exists(snap[s], job[s].jobId) \in {FINISHED, FAILED})
       => store' = store /\ pc'[s] = "idle"]_vars

\* run() is called on a job the store holds in Finished or Failed only
C9_Witness ==
  \E s \in Supervisors :
    /\ pc[s] = "run"
    /\ exists(snap[s], job[s].jobId) \in {FINISHED, FAILED}
    /\ NamespacesOf(store, job[s].jobId) \subseteq {finishedPrefix, failedPrefix}
    /\ NamespacesOf(store, job[s].jobId) # {}

\* C10: crash-resume - after a run was lost between sub-job 0 and sub-job
\* 1, a later run() that finds sub-job 0 recorded creates sub-job 1: it
\* does not finish the parent without it.
C10_CrashResume ==
  [][\A s \in Supervisors :
       (/\ job[s].jobId \in crashedMid
        /\ pc'[s] # pc[s]
        /\ Recorded(snap[s], SubJobId(job[s].jobId, 0))
        /\ NamespacesOf(store, job[s].jobId) = {pendingPrefix}
        /\ job[s].jobId \in DOMAIN store'[finishedPrefix])
       => Recorded(store', SubJobId(job[s].jobId, 1))]_vars

\* the keys of a namespace that are sub-jobs of jobId: <jobId>-...
Children(st, ns, jobId) ==
  {k \in DOMAIN st[ns] : IsPrefix(jobId \o <<"-">>, k)}

\* the step of s is status() moving its job to Finished
StatusFinishes(s) ==
  /\ Ran(s, "run") \/ Ran(s, "statusFinish")
  /\ job[s].jobId \notin DOMAIN store[finishedPrefix]
  /\ job[s].jobId \in DOMAIN store'[finishedPrefix]

\* C11: status() never commits the parent's move to Finished while the
\* store, at that commit, holds a sub-job <jobId>-... in ToDo or Pending,
\* however old the snapshot is.
C11_OpenChildrenKeepPending ==
  [][\A s \in Supervisors :
       StatusFinishes(s) =>
         /\ Children(store', toDoPrefix, job[s].jobId) = {}
         /\ Children(store', pendingPrefix, job[s].jobId) = {}]_vars

\* s is about to call status() on a snapshot that shows its job Pending,
\* the server healthy, and both ToDo and Pending sub-jobs
Cancelling(s) ==
  /\ pc[s] = "run"
  /\ exists(snap[s], job[s].jobId) = PENDING
  /\ "server" \in DOMAIN snap[s][pendingPrefix][job[s].jobId]
  /\ snap[s][healthPrefix][snap[s][pendingPrefix][job[s].jobId].server]
       = HEALTH_STATUS_GOOD
  /\ Children(snap[s], toDoPrefix, job[s].jobId) # {}
  /\ Children(snap[s], pendingPrefix, job[s].jobId) # {}

\* C12: recovery cancellation - a status() call that reads the server
\* healthy and the parent Pending with ToDo and Pending sub-jobs deletes
\* exactly those ToDo sub-jobs in one transaction, leaves every Pending
\* record (the sub-jobs' and the parent's) as it is, and does not finish
\* the parent.
C12_RecoveryCancellation ==
  [][\A s \in Supervisors :
       (Cancelling(s) /\ Ran(s, "run")) =>
         LET gone == Children(snap[s], toDoPrefix, job[s].jobId)
         IN /\ DOMAIN store'[toDoPrefix] = DOMAIN store[toDoPrefix] \ gone
            /\ \A k \in DOMAIN store'[toDoPrefix] :
                 store'[toDoPrefix][k] = store[toDoPrefix][k]
            /\ \A ns \in DOMAIN store \ {toDoPrefix} : store'[ns] = store[ns]
            /\ pc'[s] = "idle"]_vars

\* the cancelling status() is about to run on a snapshot as fresh as the
\* store
C12_Witness ==
  \E s \in Supervisors :
    /\ Cancelling(s)
    /\ Children(snap[s], toDoPrefix, job[s].jobId)
         = Children(store, toDoPrefix, job[s].jobId)
    /\ Children(snap[s], pendingPrefix, job[s].jobId)
         = Children(store, pendingPrefix, job[s].jobId)
    /\ job[s].jobId \in DOMAIN store[pendingPrefix]

\* C13 (as stated): a job id recorded in one of the four namespaces is
\* recorded in one of them in every later store state.
C13_NoJobDisappears ==
  [][\A j \in JobIds : Recorded(store, j) => Recorded(store', j)]_vars

\* C13 (amended): a recorded job id leaves the four namespaces only as a
\* ToDo sub-job <jobId>-... that the status() of its Pending parent deletes
\* on reading the server healthy; a parent job never leaves them.
C13_OnlyCancelledSubJobsDisappear ==
  [][\A j \in JobIds :
       (Recorded(store, j) /\ ~Recorded(store', j)) =>
         /\ j \in SubJobIds
         /\ NamespacesOf(store, j) = {toDoPrefix}
         /\ \E s \in Supervisors :
              /\ Ran(s, "run")
              /\ exists(snap[s], job[s].jobId) = PENDING
              /\ snap[s][healthPrefix][job[s].server] = HEALTH_STATUS_GOOD
              /\ j \in Children(snap[s], toDoPrefix, job[s].jobId)]_vars

\* a status() that will delete a ToDo sub-job still in the store
C13_Witness ==
  \E s \in Supervisors :
    /\ pc[s] = "run"
    /\ exists(snap[s], job[s].jobId) = PENDING
    /\ snap[s][healthPrefix][job[s].server] = HEALTH_STATUS_GOOD
    /\ \E k \in Children(snap[s], toDoPrefix, job[s].jobId) :
         NamespacesOf(store, k) = {toDoPrefix}

(* ------------------------------------------------------------------ *)
(* One decomposition pass over a family of topologies                  *)
(* ------------------------------------------------------------------ *)

\* the server lists of a shard: A leads, A follows, A is absent, A is the
\* only replica
ShardAssignments ==
  {<<"A", "B">>, <<"B", "A">>, <<"B", "C">>, <<"D", "A">>, <<"B", "A", "C">>,
   <<"A">>}

\* one database with one collection of two shards
OneCollection(rf, like, a1, a2, assumed) ==
  [plan |-> <<Database("d", <<Collection("c", rf, like,
                <<Shard("s1", a1), Shard("s2", a2)>>)>>)>>,
   current |-> [d |-> [c |-> assumed]]]

\* two databases: a collection with assumed leadership, a clone of it, and
\* a collection whose Current entry is empty
TwoDatabases ==
  [plan |-> <<Database("d", <<Collection("c", 2, "",
                                <<Shard("s1", <<"A", "B">>),
                                  Shard("s2", <<"B", "A">>)>>),
                              Collection("k", 2, "c",
                                <<Shard("s3", <<"B", "A">>)>>)>>),
              Database("e", <<Collection("u", 2, "",
                                <<Shard("s4", <<"A", "B">>),
                                  Shard("s5", <<"B", "C">>)>>)>>)>>,
   current |-> [d |-> [c |-> TRUE, k |-> TRUE], e |-> [u |-> FALSE]]]

\* database d is planned but has no entry in Current; database e, planned
\* after it, has one and the failed server leads its shard
MissingThenPresent ==
  [plan |-> <<Database("d", <<Collection("c", 2, "",
                                <<Shard("s1", <<"B", "C">>)>>)>>),
              Database("e", <<Collection("u", 2, "",
                                <<Shard("s2", <<"A", "B">>)>>)>>)>>,
   current |-> [e |-> [u |-> TRUE]]]

PassTopologies ==
  {OneCollection(rf, like, a1, a2, assumed) :
     rf \in {1, 2}, like \in {"", "c0"},
     a1 \in ShardAssignments, a2 \in ShardAssignments, assumed \in BOOLEAN}
  \cup {TwoDatabases, MissingDatabase, MissingThenPresent}

PassJob == to_string(1)

PassServer == "A"

PassRunner == CHOOSE s \in Supervisors : TRUE

\* the store after create() of the job for the failed server
PassStore ==
  [EmptyStore EXCEPT
     ![healthPrefix] = [x \in TargetServers |-> HEALTH_STATUS_BAD],
     ![toDoPrefix] =
        [k \in {PassJob} |->
           ToDoRecord([jobId |-> PassJob, server |-> PassServer,
                       creator |-> "supervision", jb |-> <<>>])],
     ![failedServersPrefix] = [x \in {PassServer} |-> <<>>]]

\* a supervisor has constructed the job from its ToDo entry and run() is
\* about to call start()
PassInit ==
  /\ store = PassStore
  /\ topology \in PassTopologies
  /\ pc = [s \in Supervisors |-> IF s = PassRunner THEN "start" ELSE "idle"]
  /\ snap = [s \in Supervisors |->
               IF s = PassRunner THEN Snapshot(PassStore, PassJob)
               ELSE EmptyStore]
  /\ job = [s \in Supervisors |->
              IF s = PassRunner
              THEN [jobId |-> PassJob, server |-> PassServer,
                    creator |-> "supervision", jb |-> <<>>]
              ELSE NoJob]
  /\ idx = [s \in Supervisors |-> 0]
  /\ startCommits = [j \in ParentIds |-> 0]
  /\ crashes = 0
  /\ loads = 0
  /\ crashedMid = {}

PassNext ==
  \/ \E s \in Supervisors : RunStart(s)
  \/ \E s \in Supervisors : Decompose(s)

PassSpec == PassInit /\ [][PassNext]_vars

(* ------------------------------------------------------------------ *)
(* Properties of one decomposition pass                                *)
(* ------------------------------------------------------------------ *)

\* the sub-jobs of the pass that the store holds
PassKeys ==
  Children(store, toDoPrefix, PassJob)
    \cup Children(store, pendingPrefix, PassJob)

Rec(k) ==
  IF k \in DOMAIN store[toDoPrefix] THEN store[toDoPrefix][k]
  ELSE store[pendingPrefix][k]

\* start() committed and its loops ran to the end without an exception
PassComplete ==
  pc[PassRunner] = "idle" /\ PassJob \in DOMAIN store[pendingPrefix]

\* the planned shards, as <<database, collection, shard>> positions
PlanShards ==
  UNION {UNION {{<<d, c, k>> :
                   k \in 1..Len(topology.plan[d].collections[c].shards)} :
                c \in 1..Len(topology.plan[d].collections)} :
         d \in 1..Len(topology.plan)}

DbOf(t) == topology.plan[t[1]]

CollOf(t) == DbOf(t).collections[t[2]]

ShardOf(t) == CollOf(t).shards[t[3]]

Members(servers) == {servers[i] : i \in 1..Len(servers)}

\* the collection has a non-empty entry in Current
Assumed(t) ==
  /\ DbOf(t).name \in DOMAIN topology.current
  /\ topology.current[DbOf(t).name][CollOf(t).name]

\* the sub-jobs of one type the store holds for a planned shard
SubJobsFor(type, t) ==
  {k \in PassKeys : /\ Rec(k).type = type
                    /\ Rec(k).database = DbOf(t).name
                    /\ Rec(k).collection = CollOf(t).name
                    /\ Rec(k).shard = ShardOf(t).name}

LeaderCase(t) ==
  /\ CollOf(t).replicationFactor > 1
  /\ Assumed(t)
  /\ Len(ShardOf(t).servers) >= 2
  /\ ShardOf(t).servers[1] = PassServer

\* C14: leader case - for a collection with replication factor > 1 and a
\* non-empty Current entry, a shard whose first server is the failed server
\* gets exactly one FailedLeader sub-job, whose new leader is the shard's
\* second entry, and no FailedFollower sub-job.
C14_LeaderCase ==
  PassComplete =>
    \A t \in PlanShards :
      LeaderCase(t) =>
        /\ Cardinality(SubJobsFor("failedLeader", t)) = 1
        /\ \A k \in SubJobsFor("failedLeader", t) :
             /\ Rec(k).toServer = ShardOf(t).servers[2]
             /\ Rec(k).fromServer = PassServer
        /\ SubJobsFor("failedFollower", t) = {}

\* a pass over a topology in which the failed server leads a shard
C14_Witness ==
  /\ PassComplete
  /\ \E t \in PlanShards :
       LeaderCase(t) /\ SubJobsFor("failedLeader", t) # {}

\* the failed server follows in a shard of a non-clone collection
FollowerCase(t) ==
  /\ CollOf(t).replicationFactor > 1
  /\ Assumed(t)
  /\ CollOf(t).distributeShardsLike = ""
  /\ \E i \in 2..Len(ShardOf(t).servers) : ShardOf(t).servers[i] = PassServer

\* the available servers outside the shard's assignment
Free(t) == Members(availableServers(store)) \ Members(ShardOf(t).servers)

\* the available servers outside the assignment of this shard and of the
\* shards of the collection before it
Pool(t) ==
  Members(availableServers(store))
    \ UNION {Members(CollOf(t).shards[m].servers) : m \in 1..t[3]}

SubJobsOfShard(t) ==
  SubJobsFor("failedLeader", t) \cup SubJobsFor("failedFollower", t)
    \cup SubJobsFor("unassumedLeadership", t)

\* no planned shard can make the loops of start() throw
NothingThrows ==
  \A t \in PlanShards :
    /\ DbOf(t).name \in DOMAIN topology.current
    /\ ShardOf(t).servers[1] # PassServer

\* C15 (as stated): follower case - a shard of a non-clone collection with
\* replication factor > 1 in which the failed server follows gets exactly
\* one FailedFollower sub-job, to an available server outside the shard's
\* assignment, when there is such a server, and no sub-job when there is
\* none.
C15_FollowerCase ==
  PassComplete =>
    \A t \in PlanShards :
      FollowerCase(t) =>
        IF Free(t) # {}
        THEN /\ Cardinality(SubJobsFor("failedFollower", t)) = 1
             /\ \A k \in SubJobsFor("failedFollower", t) :
                  Rec(k).toServer \in Free(t)
        ELSE SubJobsOfShard(t) = {}

\* C15 (amended): the replacement comes from the available servers that
\* are in the assignment neither of this shard nor of an earlier shard of
\* the collection; the shard gets exactly one FailedFollower sub-job when
\* there is such a server and no sub-job when there is none, and start()
\* ends without an exception.
C15_FollowerCaseFromPool ==
  /\ PassComplete =>
       \A t \in PlanShards :
         FollowerCase(t) =>
           IF Pool(t) # {}
           THEN /\ Cardinality(SubJobsFor("failedFollower", t)) = 1
                /\ \A k \in SubJobsFor("failedFollower", t) :
                     /\ Rec(k).toServer \in Pool(t)
                     /\ Rec(k).fromServer = PassServer
                /\ SubJobsOfShard(t) = SubJobsFor("failedFollower", t)
           ELSE SubJobsOfShard(t) = {}
  /\ (NothingThrows /\ pc[PassRunner] = "idle" /\ startCommits[PassJob] = 1)
       => PassComplete

\* a pass in which one following shard got its replacement and another
\* found the pool empty
C15_Witness ==
  /\ PassComplete
  /\ NothingThrows
  /\ \E t \in PlanShards :
       /\ FollowerCase(t) /\ Pool(t) = {} /\ Free(t) # {}
       /\ SubJobsOfShard(t) = {}
  /\ \E t \in PlanShards :
       FollowerCase(t) /\ SubJobsFor("failedFollower", t) # {}

\* C16: clone exclusion - no FailedFollower sub-job is created for a
\* collection whose distributeShardsLike is not empty.
C16_CloneExclusion ==
  \A t \in PlanShards :
    CollOf(t).distributeShardsLike # "" => SubJobsFor("failedFollower", t) = {}

\* a complete pass over a clone in which the failed server follows and a
\* candidate is left
C16_Witness ==
  /\ PassComplete
  /\ \E t \in PlanShards :
       /\ CollOf(t).distributeShardsLike # ""
       /\ CollOf(t).replicationFactor > 1
       /\ Assumed(t)
       /\ \E i \in 2..Len(ShardOf(t).servers) :
            ShardOf(t).servers[i] = PassServer
       /\ Pool(t) # {}
       /\ SubJobsOfShard(t) = {}

\* C17: candidate exclusion - the replacement of every FailedFollower
\* sub-job is an available server that is in the assignment neither of its
\* shard nor of a shard of the same collection processed before it.
C17_CandidateExclusion ==
  \A t \in PlanShards :
    \A k \in SubJobsFor("failedFollower", t) :
      /\ Rec(k).toServer \in Members(availableServers(store))
      /\ Rec(k).toServer \notin Members(ShardOf(t).servers)
      /\ \A m \in 1..(t[3] - 1) :
           Rec(k).toServer \notin Members(CollOf(t).shards[m].servers)

\* a FailedFollower for a later shard, with a server outside its shard
\* that an earlier shard took from the candidates
C17_Witness ==
  \E t \in PlanShards :
    /\ t[3] > 1
    /\ SubJobsFor("failedFollower", t) # {}
    /\ Free(t) \ Pool(t) # {}

\* C18: no hot-spotting - a server chosen as replacement for one shard of
\* a collection is not chosen as replacement for a later shard of the same
\* collection in the same pass.
C18_NoHotSpotting ==
  \A t1, t2 \in PlanShards :
    (t1[1] = t2[1] /\ t1[2] = t2[2] /\ t1[3] < t2[3]) =>
      \A k1 \in SubJobsFor("failedFollower", t1) :
        \A k2 \in SubJobsFor("failedFollower", t2) :
          Rec(k1).toServer # Rec(k2).toServer

\* the collection's entry in Current is empty
Unassumed(t) ==
  /\ DbOf(t).name \in DOMAIN topology.current
  /\ ~topology.current[DbOf(t).name][CollOf(t).name]

\* C19: unassumed leadership - for a collection whose Current entry is
\* empty, every planned shard gets exactly one UnassumedLeadership sub-job
\* and no FailedLeader or FailedFollower sub-job.
C19_UnassumedLeadership ==
  PassComplete =>
    \A t \in PlanShards :
      Unassumed(t) =>
        /\ Cardinality(SubJobsFor("unassumedLeadership", t)) = 1
        /\ \A k \in SubJobsFor("unassumedLeadership", t) :
             Rec(k).fromServer = PassServer
        /\ SubJobsOfShard(t) = SubJobsFor("unassumedLeadership", t)

\* a complete pass over a collection with an empty Current entry, one of
\* whose shards does not hold the failed server
C19_Witness ==
  /\ PassComplete
  /\ \E t \in PlanShards :
       /\ Unassumed(t)
       /\ PassServer \notin Members(ShardOf(t).servers)
       /\ SubJobsFor("unassumedLeadership", t) # {}

\* the sub-jobs the pass spawns, in spawn order
Spawned == Decomposition(store, topology, PassServer)

\* <parent>-<n>
NthId(n) == PassJob \o <<"-">> \o to_string(n)

\* C20: sub-job ids - the k sub-jobs one pass spawns have the ids P-0, ...,
\* P-(k-1), in spawn order, from one counter shared by all databases,
\* collections, shards and sub-job types: after n sub-jobs the store holds
\* exactly P-0 .. P-(n-1), and P-m is the m-th sub-job spawned.
C20_SubJobIds ==
  /\ pc[PassRunner] = "decomp" =>
       PassKeys = {NthId(m) : m \in 0..(idx[PassRunner] - 2)}
  /\ PassComplete =>
       /\ PassKeys = {NthId(m) : m \in 0..(Len(Spawned) - 1)}
       /\ Cardinality(PassKeys) = Len(Spawned)
       /\ \A m \in 0..(Len(Spawned) - 1) :
            /\ Rec(NthId(m)).jobId = NthId(m)
            /\ Rec(NthId(m)).type = Spawned[m + 1].type
            /\ Rec(NthId(m)).database = Spawned[m + 1].database
            /\ Rec(NthId(m)).collection = Spawned[m + 1].collection
            /\ Rec(NthId(m)).shard = Spawned[m + 1].shard

\* a complete pass over two databases that spawned sub-jobs of the three
\* types
C20_Witness ==
  /\ PassComplete
  /\ Cardinality({Rec(k).database : k \in PassKeys}) = 2
  /\ {Rec(k).type : k \in PassKeys}
       = {"failedLeader", "failedFollower", "unassumedLeadership"}
  /\ Cardinality(PassKeys) = 4

\* start() committed and run() has ended, one way or the other
PassEnded == pc[PassRunner] = "idle" /\ startCommits[PassJob] = 1

\* a planned database has no entry in Current, and nothing else in the
\* plan can make start() throw
OnlyMissingDatabases ==
  /\ \E t \in PlanShards : DbOf(t).name \notin DOMAIN topology.current
  /\ \A t \in PlanShards :
       DbOf(t).name \in DOMAIN topology.current
         => Len(ShardOf(t).servers) >= 2

\* C21: a planned database without counterpart in Current is skipped: the
\* sub-jobs of the remaining databases are still created and the parent is
\* not moved to Failed.
C21_MissingSkipped ==
  (PassEnded /\ OnlyMissingDatabases) =>
    /\ PassJob \notin DOMAIN store[failedPrefix]
    /\ PassJob \in DOMAIN store[pendingPrefix]
    /\ \A t \in PlanShards :
         (DbOf(t).name \in DOMAIN topology.current /\ LeaderCase(t))
           => SubJobsFor("failedLeader", t) # {}

(* ------------------------------------------------------------------ *)
(* run() on a store that holds the job's record, well-formed or not    *)
(* ------------------------------------------------------------------ *)

Without(rec, name) == [f \in DOMAIN rec \ {name} |-> rec[f]]

\* the record of the job as a namespace holds it
StoredRecord(ns) ==
  LET todo == ToDoRecord([jobId |-> PassJob, server |-> PassServer,
                          creator |-> "supervision", jb |-> <<>>])
      pending == PendingRecord(todo)
  IN CASE ns = toDoPrefix -> todo
       [] ns = pendingPrefix -> pending
       [] ns = finishedPrefix -> WithField(pending, "timeFinished", Now)
       [] ns = failedPrefix ->
            WithField(WithField(pending, "timeFinished", Now),
                      "reason", "exception")

\* the store with the job's record in namespace ns, with or without its
\* server field, and with or without a ToDo sub-job of a Pending job
RecordStore(ns, wellFormed, health, child) ==
  LET rec == IF wellFormed THEN StoredRecord(ns)
             ELSE Without(StoredRecord(ns), "server")
      base == [EmptyStore EXCEPT
                 ![healthPrefix] = [x \in TargetServers |-> health],
                 ![ns] = [k \in {PassJob} |-> rec],
                 ![failedServersPrefix] = [x \in {PassServer} |-> <<>>],
                 ![blockedServersPrefix] =
                    IF ns = pendingPrefix
                    THEN [x \in {PassServer} |-> [jobId |-> PassJob]]
                    ELSE <<>>]
      sub == SubJobId(PassJob, 0)
  IN IF child /\ ns = pendingPrefix
     THEN [base EXCEPT
             ![toDoPrefix] =
                [k \in {sub} |->
                   SubJobRecord(PassJob, sub,
                                SubJob("failedLeader", "d", "c", "s1",
                                       PassServer, <<"B">>), "B")]]
     ELSE base

RecordInit ==
  /\ \E health \in {HEALTH_STATUS_GOOD, HEALTH_STATUS_BAD,
                     HEALTH_STATUS_FAILED} :
       \/ \E ns \in JobNamespaces, wellFormed \in BOOLEAN, child \in BOOLEAN :
            store = RecordStore(ns, wellFormed, health, child)
       \/ store = [EmptyStore EXCEPT
                     ![healthPrefix] = [x \in TargetServers |-> health]]
  /\ topology = LeaderAndFollower
  /\ pc = [s \in Supervisors |-> "idle"]
  /\ snap = [s \in Supervisors |-> EmptyStore]
  /\ job = [s \in Supervisors |-> NoJob]
  /\ idx = [s \in Supervisors |-> 0]
  /\ startCommits = [j \in ParentIds |-> 0]
  /\ crashes = 0
  /\ loads = 0
  /\ crashedMid = {}

RecordNext ==
  \/ \E s \in Supervisors, server \in TargetServers : Load(s, PassJob, server)
  \/ \E s \in Supervisors : RunStatus(s)
  \/ \E s \in Supervisors : RunStatusFinish(s)
  \/ \E s \in Supervisors : RunCreate(s)
  \/ \E s \in Supervisors : RunStart(s)
  \/ \E s \in Supervisors : Decompose(s)

RecordSpec == RecordInit /\ [][RecordNext]_vars

\* the step of s is a status() that reads a record without server field
ReadsMalformed(s) ==
  /\ Ran(s, "run")
  /\ exists(snap[s], job[s].jobId) # NOTFOUND
  /\ "server" \notin DOMAIN StatusRecord(snap[s], job[s].jobId)

CreateStale(s) ==
  \/ store[healthPrefix][job[s].server] # HEALTH_STATUS_BAD
  \/ store[failedServersPrefix] # snap[s][failedServersPrefix]

Blocks(st, srv, j) ==
  /\ srv \in DOMAIN st[blockedServersPrefix]
  /\ st[blockedServersPrefix][srv].jobId = j

\* C24: server-block lifecycle - in every reachable state the
\* blocked-server record of the server names FailedServer job j exactly
\* when j is in Pending, and never while j is in ToDo, Failed or Finished.
C24_BlockLifecycle ==
  \A j \in ParentIds :
    /\ (\E srv \in TargetServers : Blocks(store, srv, j))
         <=> j \in DOMAIN store[pendingPrefix]
    /\ (\E srv \in TargetServers : Blocks(store, srv, j))
         => NamespacesOf(store, j) \cap
              {toDoPrefix, failedPrefix, finishedPrefix} = {}

\* the snapshot of s holds no Pending record of its job, and the record
\* status() reads, if there is one, names its server
OutsideReconciliation(s) ==
  /\ pendingPrefix \notin NamespacesOf(snap[s], job[s].jobId)
  /\ NamespacesOf(snap[s], job[s].jobId) # {}
       => "server" \in DOMAIN StatusRecord(snap[s], job[s].jobId)

\* C27: status() is pure outside reconciliation - for a job that is
\* NOTFOUND, or in ToDo, Failed or Finished with a well-formed record,
\* status() issues no transaction (the store is as before) and returns
\* the status of a namespace that holds the record, NOTFOUND when none
\* does; run() dispatches on that status.
C27_StatusPure ==
  [][\A s \in Supervisors :
       (Ran(s, "run") /\ OutsideReconciliation(s)) =>
         LET held == NamespacesOf(snap[s], job[s].jobId)
             r == StatusResult(snap[s], job[s].jobId, job[s].server)
         IN /\ store' = store
            /\ IF held = {} THEN r = NOTFOUND
               ELSE r \in {TODO, FAILED, FINISHED} /\ pos(r) \in held
            /\ pc'[s] = RunDispatch(r)]_vars

\* status() is called on a well-formed record in Failed
C27_Witness ==
  \E s \in Supervisors :
    /\ pc[s] = "run"
    /\ NamespacesOf(snap[s], job[s].jobId) = {failedPrefix}
    /\ "server" \in DOMAIN snap[s][failedPrefix][job[s].jobId]

\* the RunCreate step of s committed its transaction
CreateCommitted(s) ==
  Ran(s, "create") /\ Accepted(store, CreateTrx(snap[s], job[s]))

\* C29: a create() never commits for a job id the store already holds:
\* of two create() calls for one job id at most one is accepted, and none
\* is accepted once the job is in ToDo, Pending, Finished or Failed.
C29_CreateOnlyAbsent ==
  [][\A s \in Supervisors :
       CreateCommitted(s) => ~Recorded(store, job[s].jobId)]_vars

\* C30: an accepted standalone create() is one commit that inserts the
\* job's ToDo record (type failedServer, server, jobId, creator,
\* timeCreated) and sets the server's Target/FailedServers entry to the
\* empty list, changing nothing else; status() on a snapshot taken then
\* returns TODO.
C30_CreateAtomic ==
  [][\A s \in Supervisors :
       CreateCommitted(s) =>
         LET j == job[s].jobId
             srv == job[s].server
         IN /\ j \in DOMAIN store'[toDoPrefix]
            /\ store'[toDoPrefix][j]
                 = [type |-> "failedServer", server |-> srv, jobId |-> j,
                    creator |-> job[s].creator, timeCreated |-> Now]
            /\ srv \in DOMAIN store'[failedServersPrefix]
            /\ store'[failedServersPrefix][srv] = <<>>
            /\ \A ns \in DOMAIN store \ {toDoPrefix, failedServersPrefix} :
                 store'[ns] = store[ns]
            /\ \A k \in DOMAIN store[toDoPrefix] \ {j} :
                 /\ k \in DOMAIN store'[toDoPrefix]
                 /\ store'[toDoPrefix][k] = store[toDoPrefix][k]
            /\ DOMAIN store'[toDoPrefix] = DOMAIN store[toDoPrefix] \cup {j}
            /\ \A x \in DOMAIN store[failedServersPrefix] \ {srv} :
                 /\ x \in DOMAIN store'[failedServersPrefix]
                 /\ store'[failedServersPrefix][x]
                      = store[failedServersPrefix][x]
            /\ exists(Snapshot(store', j), j) = TODO
            /\ StatusResult(Snapshot(store', j), j, srv) = TODO]_vars

\* a create() was accepted on a store without Target/FailedServers entry:
\* the ToDo record and the entry are there, start() is next
C30_Witness ==
  \E s \in Supervisors :
    /\ pc[s] = "start"
    /\ job[s].jb # <<>>
    /\ snap[s][failedServersPrefix] = <<>>
    /\ NamespacesOf(store, job[s].jobId) = {toDoPrefix}
    /\ job[s].server \in DOMAIN store[failedServersPrefix]

\* some sub-job of parent p is recorded in st
HasSubJob(st, p) == \E k \in JobIds : IsSubJobOf(k, p) /\ Recorded(st, k)

\* C28: decomposition only after the Pending transition committed - a
\* rejected start() creates no sub-job record, and whenever a sub-job P-n
\* is recorded, its parent P is in Pending, Finished or Failed, and not in
\* ToDo.
C28_DecompositionAfterPending ==
  [][/\ \A s \in Supervisors :
          (Ran(s, "start") /\ ~StartAccepted(store, snap[s], job[s]))
          => store' = store /\ pc'[s] = "idle"
     /\ \A p \in ParentIds :
          HasSubJob(store', p) =>
            /\ NamespacesOf(store', p) # {}
            /\ NamespacesOf(store', p)
                 \subseteq {pendingPrefix, finishedPrefix, failedPrefix}]_vars

(* ------------------------------------------------------------------ *)
(* The fair specification: a driver that keeps running every job       *)
(* ------------------------------------------------------------------ *)

\* the driver's round: it constructs the job on a fresh snapshot and calls
\* run(), as often as it likes
LoadFresh(s, jobId, server) ==
  /\ pc[s] = "idle"
  /\ IF Recorded(store, jobId)
     THEN "server" \in DOMAIN StatusRecord(store, jobId)
            => server = StatusRecord(store, jobId).server
     ELSE store[healthPrefix][server] # HEALTH_STATUS_GOOD
  /\ pc' = [pc EXCEPT ![s] = "run"]
  /\ snap' = [snap EXCEPT ![s] = Snapshot(store, jobId)]
  /\ job' = [job EXCEPT ![s] = [jobId |-> jobId, server |-> server,
                                creator |-> "supervision", jb |-> <<>>]]
  /\ idx' = [idx EXCEPT ![s] = 0]
  /\ UNCHANGED <<store, topology, loads, history>>

\* the run() of s goes on
RunStep(s) ==
  \/ RunStatus(s)
  \/ RunStatusFinish(s)
  \/ RunCreate(s)
  \/ RunStart(s)
  \/ Decompose(s)

\* the supervisor that leads the agency's supervision and drives the jobs
LiveDriver == "s1"

\* the failed server leads the one shard of the plan
LeaderOnly ==
  [plan |-> <<Database("d", <<Collection("c", 2, "",
                <<Shard("s1", <<"A", "B">>)>>)>>)>>,
   current |-> [d |-> [c |-> TRUE]]]

LiveTopologies == {LeaderOnly, MissingDatabase}

LiveInit ==
  /\ store = EmptyStore
  /\ topology \in LiveTopologies
  /\ pc = [s \in Supervisors |-> "idle"]
  /\ snap = [s \in Supervisors |-> EmptyStore]
  /\ job = [s \in Supervisors |-> NoJob]
  /\ idx = [s \in Supervisors |-> 0]
  /\ startCommits = [j \in ParentIds |-> 0]
  /\ crashes = 0
  /\ loads = 0
  /\ crashedMid = {}

LiveNext ==
  \/ \E jobId \in ParentIds, server \in TargetServers :
       LoadFresh(LiveDriver, jobId, server)
  \/ RunStatus(LiveDriver)
  \/ RunStatusFinish(LiveDriver)
  \/ RunCreate(LiveDriver)
  \/ RunStart(LiveDriver)
  \/ Decompose(LiveDriver)
  \/ \E server \in TargetServers : HealthChange(server)
  \/ \E id \in SubJobIds : SubJobStart(id)
  \/ \E id \in SubJobIds, success \in BOOLEAN : SubJobFinish(id, success)

\* Every run() that began goes on to its end; the driver runs every job
\* again and again; every sub-job is started and ended by its own runs.
LiveFairness ==
  /\ WF_vars(RunStep(LiveDriver))
  /\ \A jobId \in ParentIds :
       SF_vars(\E server \in TargetServers :
                 LoadFresh(LiveDriver, jobId, server))
  /\ \A id \in SubJobIds :
       /\ WF_vars(SubJobStart(id))
       /\ WF_vars(\E success \in BOOLEAN : SubJobFinish(id, success))

LiveSpec == LiveInit /\ [][LiveNext]_vars /\ LiveFairness

\* C25: liveness of the parent - under the fair driver, with every
\* sub-job started and ended by its own runs, a FailedServer job that is
\* in Pending is eventually in Finished with its server block released.
C25_ParentFinishes ==
  \A p \in ParentIds :
    (p \in DOMAIN store[pendingPrefix])
      ~> (/\ p \in DOMAIN store[finishedPrefix]
          /\ \A srv \in TargetServers : ~Blocks(store, srv, p))

\* job j waits in ToDo for a server that another job blocks
Waiting(j) ==
  /\ NamespacesOf(store, j) = {toDoPrefix}
  /\ \E srv \in TargetServers :
       /\ srv \in DOMAIN store[blockedServersPrefix]
       /\ store[blockedServersPrefix][srv].jobId # j

\* C26: retry after contention - a start() issued while the server is
\* blocked changes nothing, so the job stays in ToDo; a start() of a ToDo
\* job issued on a snapshot taken when the block was gone (and with the
\* block still gone) commits the move to Pending; under the fair driver a
\* job that waits in ToDo for a blocked server is eventually Pending.
C26_RetryAfterContention ==
  /\ [][\A s \in Supervisors :
          Ran(s, "start") =>
            LET j == job[s].jobId
            IN /\ (/\ job[s].server \in DOMAIN store[blockedServersPrefix]
                   /\ j \in DOMAIN store[toDoPrefix])
                  => /\ store' = store
                     /\ pc'[s] = "idle"
               /\ (/\ job[s].server \notin DOMAIN store[blockedServersPrefix]
                   /\ j \in DOMAIN snap[s][toDoPrefix])
                  => /\ j \in DOMAIN store'[pendingPrefix]
                     /\ j \notin DOMAIN store'[toDoPrefix]
                     /\ Blocks(store', job[s].server, j)]_vars
  /\ \A j \in ParentIds : Waiting(j) ~> (j \in DOMAIN store[pendingPrefix])

\* the retry: the job is still in ToDo, the job that blocked the server
\* has ended and released it, and a run() on a fresh snapshot is about to
\* issue start()
C26_Witness ==
  \E j \in ParentIds :
    /\ pc[LiveDriver] = "start"
    /\ job[LiveDriver].jobId = j
    /\ job[LiveDriver].jb = <<>>
    /\ NamespacesOf(store, j) = {toDoPrefix}
    /\ DOMAIN store[blockedServersPrefix] = {}
    /\ \E k \in ParentIds \ {j} :
         /\ startCommits[k] = 1
         /\ NamespacesOf(store, k) \cap {finishedPrefix, failedPrefix} # {}

(* ------------------------------------------------------------------ *)
(* The envelope specification: a caller that composes one transaction  *)
(* of several create() calls and commits it itself                     *)
(* ------------------------------------------------------------------ *)

\* the most transactions a caller puts into one envelope
MaxEnvelope == 2

\* the caller constructs a job on a fresh snapshot and calls
\* create(envelope), with a new envelope or the one it is composing
EnvelopeCreate(s, jobId, server) ==
  /\ pc[s] \in {"idle", "envelope"}
  /\ Len(job[s].jb) < MaxEnvelope
  /\ LET envelope == job[s].jb
         snapshot == Snapshot(store, jobId)
         j == [jobId |-> jobId, server |-> server, creator |-> "supervision",
               jb |-> <<>>]
         r == FailedServer_create(store, envelope, snapshot, j)
     IN /\ store' = r.store
        /\ pc' = [pc EXCEPT ![s] = IF r.ret THEN "envelope" ELSE "rejected"]
        /\ snap' = [snap EXCEPT ![s] = snapshot]
        /\ job' = [job EXCEPT ![s] = [j EXCEPT !.jb = r.jb]]
  /\ UNCHANGED <<topology, idx, loads, history>>

RECURSIVE TransactAll(_, _)
\* the agency applies the transactions of one write request in order,
\* each under its own preconditions
TransactAll(st, trxs) ==
  IF trxs = <<>> THEN st
  ELSE TransactAll(transact(st, Head(trxs)), Tail(trxs))

\* the caller commits the envelope it composed
EnvelopeTransact(s) ==
  /\ pc[s] = "envelope"
  /\ store' = TransactAll(store, job[s].jb)
  /\ Local(s, "idle", NoJob, 0)
  /\ UNCHANGED <<topology, loads, history>>

EnvelopeNext ==
  \/ \E s \in Supervisors, jobId \in ParentIds, server \in TargetServers :
       EnvelopeCreate(s, jobId, server)
  \/ \E s \in Supervisors : EnvelopeTransact(s)
  \/ \E server \in TargetServers : HealthChange(server)

EnvelopeSpec == Init /\ [][EnvelopeNext]_vars

\* s called create(envelope) in this step
CalledCreate(s) ==
  /\ pc[s] \in {"idle", "envelope"}
  /\ pc'[s] \in {"envelope", "rejected"}
  /\ job'[s] # job[s]

\* C31: create() with a caller-supplied envelope issues no transaction:
\* the store is as before; the envelope holds what it held and, after it,
\* the operations and preconditions of this create(); create() returns
\* true whatever the store holds.
C31_CreateInEnvelope ==
  [][\A s \in Supervisors :
       CalledCreate(s) =>
         /\ store' = store
         /\ pc'[s] = "envelope"
         /\ Len(job'[s].jb) = Len(job[s].jb) + 1
         /\ SubSeq(job'[s].jb, 1, Len(job[s].jb)) = job[s].jb
         /\ job'[s].jb[Len(job'[s].jb)]
              = [ops |-> << SetOp(toDoPrefix, job'[s].jobId,
                                  ToDoRecord(job'[s])),
                            SetOp(failedServersPrefix, job'[s].server, <<>>) >>,
                 pre |-> << Old(healthPrefix, job'[s].server,
                                HEALTH_STATUS_BAD),
                            OldAll(failedServersPrefix,
                                   store[failedServersPrefix]) >>]]_vars

\* create(envelope) returned true twice while the server was healthy: the
\* envelope holds two transactions and the store none of the two jobs
C31_Witness ==
  \E s \in Supervisors :
    /\ pc[s] = "envelope"
    /\ Len(job[s].jb) = 2
    /\ job[s].jb[1] # job[s].jb[2]
    /\ store = EmptyStore

(* ------------------------------------------------------------------ *)
(* The refusal specification: an agency that may refuse the writes of  *)
(* status()                                                            *)
(* ------------------------------------------------------------------ *)

RefusalNext ==
  \/ \E s \in Supervisors, server \in TargetServers : Load(s, PassJob, server)
  \/ \E s \in Supervisors, available \in BOOLEAN : Status(s, available)
  \/ \E s \in Supervisors : RunStatusFinish(s)
  \/ \E s \in Supervisors : RunCreate(s)
  \/ \E s \in Supervisors : RunStart(s)
  \/ \E s \in Supervisors : Decompose(s)

RefusalSpec == RecordInit /\ [][RefusalNext]_vars

\* status() of s built a delete transaction and a sub-job it names is
\* still in ToDo after the step: the transaction was not accepted
DeleteRejected(s) ==
  /\ Ran(s, "run")
  /\ exists(snap[s], job[s].jobId) = PENDING
  /\ "server" \in DOMAIN StatusRecord(snap[s], job[s].jobId)
  /\ \E k \in DeleteTodos(snap[s], job[s].jobId,
                           StatusRecord(snap[s], job[s].jobId).server) :
       k \in DOMAIN store[toDoPrefix] /\ k \in DOMAIN store'[toDoPrefix]

\* C32: when the transaction that deletes the ToDo sub-jobs of a recovered
\* server is rejected, status() returns PENDING without finish(): run()
\* ends; the parent is in Pending as before, its server block and every
\* sub-job record are as before.
C32_DeleteRejected ==
  [][\A s \in Supervisors :
       DeleteRejected(s) =>
         /\ pc'[s] = "idle"
         /\ store' = store]_vars

\* status() is about to delete the ToDo sub-job of a Pending job whose
\* server is healthy again, and no sub-job of it is Pending: were the
\* delete accepted, finish() would follow
C32_Witness ==
  \E s \in Supervisors :
    /\ pc[s] = "run"
    /\ NamespacesOf(store, job[s].jobId) = {pendingPrefix}
    /\ Blocks(store, job[s].server, job[s].jobId)
    /\ DeleteTodos(snap[s], job[s].jobId, job[s].server) # {}
    /\ DeleteTodos(snap[s], job[s].jobId, job[s].server)
         \subseteq DOMAIN store[toDoPrefix]
    /\ ~HasOpenChildTasks(snap[s], job[s].jobId, job[s].server)

\* s is about to call status() on a snapshot that shows its job Pending
\* and well-formed, the server not healthy, and a sub-job in ToDo or
\* Pending
ReadsUnhealthy(s) ==
  /\ pc[s] = "run"
  /\ exists(snap[s], job[s].jobId) = PENDING
  /\ "server" \in DOMAIN snap[s][pendingPrefix][job[s].jobId]
  /\ snap[s][healthPrefix][snap[s][pendingPrefix][job[s].jobId].server]
       # HEALTH_STATUS_GOOD
  /\ Children(snap[s], toDoPrefix, job[s].jobId)
       \cup Children(snap[s], pendingPrefix, job[s].jobId) # {}

\* C33: a status() call that reads the server's health as not good and
\* the parent Pending deletes no sub-job; every ToDo or Pending sub-job
\* <jobId>-... it reads is an open child, and with at least one the
\* parent is not finished: the store is as before and status() returns
\* PENDING.
C33_UnhealthyKeepsSubJobs ==
  [][\A s \in Supervisors :
       (Ran(s, "run") /\ ReadsUnhealthy(s)) =>
         /\ store' = store
         /\ pc'[s] = "idle"]_vars

\* status() is called with the server BAD and the only sub-job in ToDo
C33_Witness ==
  \E s \in Supervisors :
    /\ ReadsUnhealthy(s)
    /\ Children(snap[s], pendingPrefix, job[s].jobId) = {}
    /\ Children(store, toDoPrefix, job[s].jobId) # {}
    /\ store[healthPrefix][job[s].server] # HEALTH_STATUS_GOOD

(* ------------------------------------------------------------------ *)
(* The call specification: a caller of start() that gets what start()  *)
(* returns                                                             *)
(* ------------------------------------------------------------------ *)

\* the other job, which may hold the block of the server
OtherJob == to_string(2)

\* the store start() is called on: the job's ToDo entry is there or not,
\* the server is blocked by the other job (which is Pending) or not
CallStore(hasToDo, blocked) ==
  LET j == [jobId |-> PassJob, server |-> PassServer,
            creator |-> "supervision", jb |-> <<>>]
      o == [j EXCEPT !.jobId = OtherJob]
  IN [EmptyStore EXCEPT
        ![healthPrefix] = [x \in TargetServers |-> HEALTH_STATUS_BAD],
        ![toDoPrefix] = IF hasToDo THEN [k \in {PassJob} |-> ToDoRecord(j)]
                        ELSE <<>>,
        ![pendingPrefix] =
           IF blocked THEN [k \in {OtherJob} |-> PendingRecord(ToDoRecord(o))]
           ELSE <<>>,
        ![blockedServersPrefix] =
           IF blocked THEN [x \in {PassServer} |-> [jobId |-> OtherJob]]
           ELSE <<>>,
        ![failedServersPrefix] = [x \in {PassServer} |-> <<>>]]

\* the job was constructed on a snapshot of the store, or its create() has
\* just built the envelope, and start() is about to be called
CallInit ==
  /\ \E hasToDo \in BOOLEAN, blocked \in BOOLEAN, built \in BOOLEAN :
       LET st == CallStore(hasToDo, blocked)
           j == [jobId |-> PassJob, server |-> PassServer,
                 creator |-> "supervision", jb |-> <<>>]
       IN /\ store = st
          /\ snap = [s \in Supervisors |->
                       IF s = PassRunner THEN Snapshot(st, PassJob)
                       ELSE EmptyStore]
          /\ job = [s \in Supervisors |->
                      IF s # PassRunner THEN NoJob
                      ELSE IF built
                      THEN [j EXCEPT !.jb =
                              <<CreateTrx(Snapshot(st, PassJob), j)>>]
                      ELSE j]
  /\ topology \in PassTopologies
  /\ pc = [s \in Supervisors |-> IF s = PassRunner THEN "start" ELSE "idle"]
  /\ idx = [s \in Supervisors |-> 0]
  /\ startCommits = [j \in ParentIds |-> 0]
  /\ crashes = 0
  /\ loads = 0
  /\ crashedMid = {}

CallNext ==
  \/ \E s \in Supervisors : Start(s, CallEnds)
  \/ \E s \in Supervisors : Decomposing(s, CallEnds)

CallSpec == CallInit /\ [][CallNext]_vars

\* start() has returned or thrown
CallEnded(s) == pc[s] \in {"true", "false", "thrown"}

\* the decomposition of the call raises an exception
CallThrows(s) ==
  \E i \in 1..Len(Decomposition(snap[s], topology, job[s].server)) :
    Decomposition(snap[s], topology, job[s].server)[i].type = "throw"

\* C34: start() returns true exactly when its transaction to Pending was
\* accepted and the decomposition raised no exception; it returns false
\* exactly when the transaction was not accepted, and then nothing was
\* written.  How many sub-jobs were spawned, and whether their own start
\* succeeded, does not matter.
C34_StartReturn ==
  \A s \in Supervisors :
    CallEnded(s) =>
      LET accepted == /\ HasToDo(snap[s], job[s])
                      /\ Blocks(store, job[s].server, job[s].jobId)
                      /\ job[s].jobId \in DOMAIN store[pendingPrefix]
      IN /\ pc[s] = "true" <=> (accepted /\ ~CallThrows(s))
         /\ pc[s] = "thrown" <=> (accepted /\ CallThrows(s))
         /\ pc[s] = "false" <=> ~accepted
         /\ pc[s] = "false" =>
              \E hasToDo \in BOOLEAN, blocked \in BOOLEAN :
                store = CallStore(hasToDo, blocked)

\* start() returned true and spawned no sub-job
C34_Witness ==
  /\ pc[PassRunner] = "true"
  /\ PassKeys = {}
  /\ PassJob \in DOMAIN store[pendingPrefix]

\* C35: start() on a job constructed without envelope, on a snapshot that
\* lacks its ToDo entry, returns false and issues no transaction: the
\* store is as before, no block is taken, no sub-job is created.
C35_StartWithoutToDo ==
  [][\A s \in Supervisors :
       (/\ Ran(s, "start")
        /\ job[s].jb = <<>>
        /\ job[s].jobId \notin DOMAIN snap[s][toDoPrefix])
       => /\ pc'[s] = "false"
          /\ store' = store
          /\ startCommits' = startCommits]_vars

\* start() was called without envelope and without ToDo entry, on a
\* server that nothing blocks, and returned false
C35_Witness ==
  /\ pc[PassRunner] = "false"
  /\ job[PassRunner].jb = <<>>
  /\ PassJob \notin DOMAIN snap[PassRunner][toDoPrefix]
  /\ store = CallStore(FALSE, FALSE)

(* ------------------------------------------------------------------ *)
(* The prefix specification: two Pending jobs whose ids share leading  *)
(* characters, and their sub-jobs                                      *)
(* ------------------------------------------------------------------ *)

PrefixParents == {to_string(1), to_string(10)}

PrefixKeys == {SubJobId(p, 0) : p \in PrefixParents}

PrefixParentOf(k) == CHOOSE p \in PrefixParents : k = SubJobId(p, 0)

\* both jobs are Pending; place says where each sub-job is
PrefixStore(place, health) ==
  LET sub(k) == SubJobRecord(PrefixParentOf(k), k,
                             SubJob("failedLeader", "d", "c", "s1",
                                    PassServer, <<"B">>), "B")
      parent(p) == PendingRecord(ToDoRecord(
                     [jobId |-> p, server |-> PassServer,
                      creator |-> "supervision", jb |-> <<>>]))
  IN [EmptyStore EXCEPT
        ![healthPrefix] = [x \in TargetServers |-> health],
        ![toDoPrefix] =
           [k \in {x \in PrefixKeys : place[x] = toDoPrefix} |-> sub(k)],
        ![pendingPrefix] =
           [k \in PrefixParents
                    \cup {x \in PrefixKeys : place[x] = pendingPrefix} |->
              IF k \in PrefixParents THEN parent(k)
              ELSE PendingRecord(sub(k))],
        ![blockedServersPrefix] =
           [x \in {PassServer} |-> [jobId |-> to_string(1)]],
        ![failedServersPrefix] = [x \in {PassServer} |-> <<>>]]

PrefixInit ==
  /\ \E place \in [PrefixKeys -> {"none", toDoPrefix, pendingPrefix}],
        health \in {HEALTH_STATUS_GOOD, HEALTH_STATUS_BAD} :
       store = PrefixStore(place, health)
  /\ topology = Uninvolved
  /\ pc = [s \in Supervisors |-> "idle"]
  /\ snap = [s \in Supervisors |-> EmptyStore]
  /\ job = [s \in Supervisors |-> NoJob]
  /\ idx = [s \in Supervisors |-> 0]
  /\ startCommits = [j \in ParentIds |-> 0]
  /\ crashes = 0
  /\ loads = 0
  /\ crashedMid = {}

PrefixNext ==
  \/ \E s \in Supervisors, jobId \in PrefixParents, server \in TargetServers :
       Load(s, jobId, server)
  \/ \E s \in Supervisors : RunStatus(s)
  \/ \E s \in Supervisors : RunStatusFinish(s)

PrefixSpec == PrefixInit /\ [][PrefixNext]_vars

\* C36: child membership is a prefix match - status() of parent P deletes
\* a ToDo job, or counts a ToDo or Pending job as an open child, exactly
\* when its id is P's id followed by '-' and more; a job whose id only
\* begins with the characters of P's id (10-0 for P = 1) is neither
\* deleted nor keeps P from being finished.
C36_PrefixMatch ==
  [][\A s \in Supervisors :
       (/\ Ran(s, "run")
        /\ exists(snap[s], job[s].jobId) = PENDING)
       => LET P == job[s].jobId
              todoKids == Children(snap[s], toDoPrefix, P)
              pendKids == Children(snap[s], pendingPrefix, P)
              healthy == snap[s][healthPrefix][job[s].server]
                           = HEALTH_STATUS_GOOD
              open == pendKids # {} \/ (~healthy /\ todoKids # {})
          IN /\ DOMAIN store[toDoPrefix] \ DOMAIN store'[toDoPrefix]
                  \subseteq todoKids
             /\ healthy => todoKids \cap DOMAIN store'[toDoPrefix] = {}
             /\ DOMAIN store'[pendingPrefix] \cup {P}
                  = DOMAIN store[pendingPrefix] \cup {P}
             /\ open => /\ pc'[s] = "idle"
                        /\ store'[finishedPrefix] = store[finishedPrefix]
             /\ ~open => \/ pc'[s] = "statusFinish"
                         \/ P \in DOMAIN store'[finishedPrefix]]_vars

\* job 1 was finished while the sub-job 10-0 of job 10 is in ToDo or
\* Pending, and job 1 had no sub-job of its own
C36_Witness ==
  /\ to_string(1) \in DOMAIN store[finishedPrefix]
  /\ to_string(10) \in DOMAIN store[pendingPrefix]
  /\ SubJobId(to_string(10), 0)
       \in DOMAIN store[toDoPrefix] \cup DOMAIN store[pendingPrefix]
  /\ ~Recorded(store, SubJobId(to_string(1), 0))
  /\ store[healthPrefix][PassServer] = HEALTH_STATUS_BAD
(* ------------------------------------------------------------------ *)
(* What one decomposition pass leaves out                              *)
(* ------------------------------------------------------------------ *)

\* the collection has a non-empty Current entry and replication factor 1
Unreplicated(t) == Assumed(t) /\ CollOf(t).replicationFactor = 1

\* C37: for a collection whose Current entry is non-empty and whose
\* replication factor is 1, start() creates no sub-job of any type, whether
\* or not the failed server holds the collection's shards.
C37_Unreplicated ==
  \A t \in PlanShards : Unreplicated(t) => SubJobsOfShard(t) = {}

\* a complete pass over an unreplicated collection one of whose shards the
\* failed server leads while another does not hold it, which left no
\* sub-job at all
C37_Witness ==
  /\ PassComplete
  /\ PassKeys = {}
  /\ \E t1, t2 \in PlanShards :
       /\ Unreplicated(t1) /\ Unreplicated(t2)
       /\ ShardOf(t1).servers[1] = PassServer
       /\ PassServer \notin Members(ShardOf(t2).servers)

\* the collection has a non-empty Current entry and replication factor > 1
Replicated(t) == Assumed(t) /\ CollOf(t).replicationFactor > 1

\* C38: no spurious sub-jobs - for a collection with a non-empty Current
\* entry and replication factor > 1, start() creates no sub-job for a
\* shard whose assignment does not contain the failed server, and at most
\* one sub-job for any single shard.
C38_NoSpuriousSubJobs ==
  \A t \in PlanShards :
    Replicated(t) =>
      /\ PassServer \notin Members(ShardOf(t).servers)
           => SubJobsOfShard(t) = {}
      /\ Cardinality(SubJobsOfShard(t)) <= 1

\* a complete pass over a replicated collection with candidates left, in
\* which one shard has its sub-job and a shard without the failed server
\* has none
C38_Witness ==
  /\ PassComplete
  /\ \E t1, t2 \in PlanShards :
       /\ Replicated(t1) /\ Replicated(t2)
       /\ CollOf(t1).distributeShardsLike = ""
       /\ Cardinality(SubJobsOfShard(t1)) = 1
       /\ PassServer \notin Members(ShardOf(t2).servers)
       /\ Free(t2) # {}
       /\ SubJobsOfShard(t2) = {}

FailedServer_abort_Unblocks(st, j) ==
  [st EXCEPT ![blockedServersPrefix] =
     [x \in DOMAIN @ \ {j.server} |-> @[x]]]

\* abort() has an empty body
FailedServer_abort(st, j) == st

\* a supervisor calls abort() on the job it has constructed, instead of
\* run(), and keeps the aborted job
Abort(s) ==
  /\ pc[s] = "run"
  /\ store' = FailedServer_abort(store, job[s])
  /\ Local(s, "aborted", job[s], 0)
  /\ UNCHANGED <<topology, loads, history>>

AbortNext ==
  \/ \E s \in Supervisors, server \in TargetServers : Load(s, PassJob, server)
  \/ \E s \in Supervisors : Abort(s)
  \/ \E s \in Supervisors : RunStatus(s)
  \/ \E s \in Supervisors : RunStatusFinish(s)
  \/ \E s \in Supervisors : RunCreate(s)
  \/ \E s \in Supervisors : RunStart(s)
  \/ \E s \in Supervisors : Decompose(s)

\* the job's record in each namespace or in none, with the supervisors
\* running or aborting it
AbortSpec == RecordInit /\ [][AbortNext]_vars

\* C39: abort() changes nothing - whatever namespace the job is in, after
\* abort() the store (job record, server block, sub-jobs) is identical to
\* the store before the call.
C39_AbortChangesNothing ==
  [][\A s \in Supervisors :
       (pc[s] # "aborted" /\ pc'[s] = "aborted") => store' = store]_vars

\* abort() has returned on a Pending job that holds the block on its
\* server and has an open sub-job
C39_Witness ==
  \E s \in Supervisors :
    /\ pc[s] = "aborted"
    /\ job[s].jobId \in DOMAIN store[pendingPrefix]
    /\ Blocks(store, job[s].server, job[s].jobId)
    /\ Children(store, toDoPrefix, job[s].jobId) # {}

====
